---- MODULE Spec2Model ----
(***************************************************************************)
(* Order-book mirror (OrderbookManager), the linear trade cycle of         *)
(* TradingBot, the dashboard state manager (BotStateManager) and the part  *)
(* of the venue the bot talks to (orders, position), as state machines.    *)
(*                                                                         *)
(* Prices are integers counted in 1/PriceScale of one tick, quantities in  *)
(* lot steps.  The venue delivers prices as decimal strings; parseFloat    *)
(* turns a string into a number.                                           *)
(***************************************************************************)
EXTENDS Integers, Sequences, FiniteSets, TLC

(***************************************************************************)
(* Bounds of the model                                                     *)
(***************************************************************************)
MaxUpdateId == 3
MaxTime == 2

MaxStreamId == 2
MaxCycles == 2
MaxEntryPolls == 1
MaxTpPolls == 1
MaxStopCycles == 1
MaxOrphans == 1

PriceScale == 100

(***************************************************************************)
(* Configuration (values inside the ranges the config schema allows) and   *)
(* the symbol's precision                                                  *)
(***************************************************************************)
quantity == 2
entryLevel == 1
tpLevel == 2
slLevel == 2
directionSwitchLosses == 2
slDistancePercent == 1
riskRewardRatio == 2
tickSize == PriceScale
pricePrecisionStep == PriceScale
quantityPrecisionStep == 1
HistoryLimit == 100

(* MicroGridStrategy: a rate r stands for r / RateScale (0.08 % is 8), and  *)
(* money (P&L, fees) is counted in 1 / RateScale of one price unit          *)
RateScale == 10000
spreadGapPercent == 8
minSpreadPercent == 5
maxSpreadPercent == 30
priceRangePercent == 200
maxPositionMultiplier == 2
dailyLossLimitPercent == 500
makerFeePercent == 2
takerFeePercent == 5
rollingPriceUpdateTrades == 2
emergencyCloseDeviationPercent == 100
positionResumeThresholdPercent == 5000
maxConsecutiveLosses == 5
maxPositionSize == quantity * maxPositionMultiplier

None == "none"
Null == -1

(***************************************************************************)
(* State                                                                   *)
(***************************************************************************)
VARIABLES
    bookState,   \* OrderbookManager.state: bids, asks, lastUpdateId, timestamp
    bookCall,    \* the last call made on the mirror: op, u, and a bit flipped by every call
    wsConnected, \* the depth stream is open
    orders,      \* venue: the orders it holds, orderId = index
    position,    \* venue: signed net position in lot steps
    strategy,    \* config.strategy
    pc,          \* where the run loop of TradingBot is suspended
    isRunning,   \* TradingBot.isRunning
    direction,   \* TradingBot.direction
    consecutiveLosses,
    totalWins,
    totalLosses,
    cycle,       \* locals of executeTradeCycle: order ids, fill, bracket prices
    polls,       \* iterations done by the current monitoring loop
    cycles,      \* trade cycles started
    state,       \* BotStateManager
    cancelsSent, \* order ids for which a cancel request was issued
    outcome,     \* how the last trade cycle ended
    lastBracket, \* the last bracket submitted: direction, entry, tp, sl
    manager,     \* BotManager: isStarting, and the earlier instances still in run()
    grid,        \* MicroGridStrategy: its fields
    market,      \* the calendar day last read, venue: entry price of the position
    gridCall,    \* what the last step of MicroGridStrategy did
    calc,        \* a call of a helper function: its name, arguments and result
    placing,     \* a call that places the bracket orders: its attempts and requests
    socket       \* BaseWebSocket: its fields, the WebSocket objects it created

bookVars == <<bookState, bookCall>>
venueVars == <<orders, position>>
botVars == <<pc, isRunning, direction, consecutiveLosses, totalWins, totalLosses,
             cycle, polls, cycles>>
histVars == <<cancelsSent, outcome, lastBracket>>
gridVars == <<grid, market, gridCall, calc, placing, socket>>
restVars == <<strategy, manager, grid, market, gridCall, calc,
             placing, socket>>

vars == <<bookState, bookCall, wsConnected, orders, position, strategy, pc,
          isRunning, direction, consecutiveLosses, totalWins, totalLosses,
          cycle, polls, cycles, state, cancelsSent, outcome, lastBracket,
          manager, grid, market, gridCall, calc, placing, socket>>

(***************************************************************************)
(* Decimal strings of the venue and their numeric value                    *)
(***************************************************************************)
PriceStrings == {"96", "97", "98", "99", "100", "101", "102"}

parseFloat(s) ==
    CASE s = "96" -> 96 * PriceScale
      [] s = "97" -> 97 * PriceScale
      [] s = "98" -> 98 * PriceScale
      [] s = "99" -> 99 * PriceScale
      [] s = "100" -> 100 * PriceScale
      [] s = "101" -> 101 * PriceScale
      [] s = "102" -> 102 * PriceScale

(* One side of a depth message: levels [price, qty], best price first *)
BidSides ==
    { <<>>,
      << <<"100", "1.0">> >>,
      << <<"100", "1.0">>, <<"99", "2.0">> >>,
      << <<"97", "1.0">>, <<"96", "2.0">> >> }

AskSides ==
    { <<>>,
      << <<"101", "1.0">> >>,
      << <<"101", "1.0">>, <<"102", "2.0">> >>,
      << <<"98", "1.0">>, <<"99", "2.0">> >> }

Times == 1..MaxTime

(* Depth-stream messages (OrderbookUpdate): b, a, u, E *)
OrderbookUpdates ==
    [b : BidSides, a : AskSides, u : 0..MaxUpdateId, E : Times]

(***************************************************************************)
(* OrderbookManager                                                        *)
(***************************************************************************)
EmptyBook == [bids |-> <<>>, asks |-> <<>>, lastUpdateId |-> 0, timestamp |-> 0]

update_mut_lt(st, data) ==
    IF data.u < st.lastUpdateId
    THEN st
    ELSE [bids |-> data.b, asks |-> data.a,
          lastUpdateId |-> data.u, timestamp |-> data.E]

update_mut_nocheck(st, data) ==
    [bids |-> data.b, asks |-> data.a,
     lastUpdateId |-> data.u, timestamp |-> data.E]

(* replaces the bids only *)
update_mut_bids(st, data) ==
    IF data.u <= st.lastUpdateId
    THEN st
    ELSE [bids |-> data.b, asks |-> st.asks,
          lastUpdateId |-> data.u, timestamp |-> data.E]

update(st, data) ==
    IF data.u <= st.lastUpdateId
    THEN st
    ELSE [bids |-> data.b, asks |-> data.a,
          lastUpdateId |-> data.u, timestamp |-> data.E]

initFromSnapshot(bids, asks, lastUpdateId, now) ==
    [bids |-> bids, asks |-> asks,
     lastUpdateId |-> lastUpdateId, timestamp |-> now]

hasData(st) == Len(st.bids) > 0 /\ Len(st.asks) > 0

getBestBid(st) ==
    IF Len(st.bids) = 0 THEN Null ELSE parseFloat(st.bids[1][1])

getBestAsk(st) ==
    IF Len(st.asks) = 0 THEN Null ELSE parseFloat(st.asks[1][1])

getBidAtLevel_mut(st, level) ==
    LET index == level IN
    IF index < 0 \/ index >= Len(st.bids) THEN Null
    ELSE parseFloat(st.bids[index + 1][1])

getBidAtLevel(st, level) ==
    LET index == level - 1 IN
    IF index < 0 \/ index >= Len(st.bids) THEN Null
    ELSE parseFloat(st.bids[index + 1][1])

getAskAtLevel(st, level) ==
    LET index == level - 1 IN
    IF index < 0 \/ index >= Len(st.asks) THEN Null
    ELSE parseFloat(st.asks[index + 1][1])

getEntryPrice(st, dir, level) ==
    IF dir = "LONG" THEN getBidAtLevel(st, level)
    ELSE getAskAtLevel(st, level)

getTakeProfitPrice(st, dir, level) ==
    IF dir = "LONG" THEN getAskAtLevel(st, level)
    ELSE getBidAtLevel(st, level)

getStopLossPrice(st, dir, level) ==
    IF dir = "LONG" THEN getBidAtLevel(st, level)
    ELSE getAskAtLevel(st, level)

validateTPSLPrices_mut(dir, entryPrice, tpPrice, slPrice) ==
    IF dir = "LONG"
    THEN [tpValid |-> tpPrice >= entryPrice, slValid |-> slPrice < entryPrice]
    ELSE [tpValid |-> tpPrice < entryPrice, slValid |-> slPrice > entryPrice]

(* the result without its reason text *)
validateTPSLPrices(dir, entryPrice, tpPrice, slPrice) ==
    IF dir = "LONG"
    THEN [tpValid |-> tpPrice > entryPrice, slValid |-> slPrice < entryPrice]
    ELSE [tpValid |-> tpPrice < entryPrice, slValid |-> slPrice > entryPrice]

(***************************************************************************)
(* Calls on the mirror                                                     *)
(***************************************************************************)
Flip(b) == 1 - b

Update(inputs) ==
    \E data \in inputs :
        /\ bookState' = update(bookState, data)
        /\ bookCall' = [op |-> "update", u |-> data.u, tick |-> Flip(bookCall.tick)]
        /\ UNCHANGED <<wsConnected, venueVars, restVars, botVars, state, histVars>>

InitFromSnapshot ==
    \E bids \in BidSides, asks \in AskSides, id \in 0..MaxUpdateId, now \in Times :
        /\ bookState' = initFromSnapshot(bids, asks, id, now)
        /\ bookCall' = [op |-> "initFromSnapshot", u |-> id, tick |-> Flip(bookCall.tick)]
        /\ UNCHANGED <<wsConnected, venueVars, restVars, botVars, state, histVars>>

(***************************************************************************)
(* Initial values                                                          *)
(***************************************************************************)
EmptyCycle ==
    [entryOrderId |-> 0, avgPrice |-> 0, quantity |-> 0,
     tpOrderId |-> 0, slOrderId |-> 0, tpPrice |-> 0, slPrice |-> 0,
     slept |-> FALSE]

NoBracket == [direction |-> None, entry |-> 0, tp |-> 0, sl |-> 0]

NoTrade ==
    [direction |-> None, entryPrice |-> 0, quantity |-> 0, tpPrice |-> 0,
     slPrice |-> 0, exitPrice |-> Null, result |-> None]

BotStateManagerInit(initialDirection) ==
    [isRunning |-> FALSE, direction |-> initialDirection, currentTrade |-> NoTrade,
     trades |-> <<>>, consecutiveLosses |-> 0, totalWins |-> 0, totalLosses |-> 0]

BotManagerInit == [isStarting |-> FALSE, stopped |-> 0, unstopped |-> 0]

(* A MicroGridStrategy after its constructor; null ids and prices are 0 *)
GridConstructed ==
    [pc |-> "Constructed", isRunning |-> FALSE,
     activeBuyOrderId |-> 0, activeSellOrderId |-> 0,
     lastEntrySide |-> None, lastEntryPrice |-> 0, lastEntryQty |-> 0,
     initialPrice |-> 0, isPaused |-> FALSE,
     dailyPnL |-> 0, dailyStartBalance |-> 0,
     dailyLossLimit |-> dailyLossLimitPercent, tradingDay |-> 0,
     consecutiveLosses |-> 0, isCircuitBroken |-> FALSE,
     priceHistory |-> {}, currentSpread |-> spreadGapPercent,
     tradesSinceRangeUpdate |-> 0,
     isReducingPosition |-> FALSE, reductionStartPrice |-> 0,
     reductionStartPositionSize |-> 0, reduceOnlyOrderId |-> 0,
     reduceOnlyOrderSide |-> None, isWaitingForStabilization |-> FALSE]

MarketInit == [day |-> 1, entryPrice |-> 0]

(* no helper function was called *)
NoCalc == [fn |-> None, done |-> FALSE, args |-> <<>>, result |-> None]

(* a call that places bracket orders: the method and its arguments, the    *)
(* loop variable attempt, the requests sent so far, what the book reads    *)
(* returned, the waits between attempts, and what the call returned        *)
PlaceCall(fn, dir, strat, maxRetries) ==
    [fn |-> fn, direction |-> dir, strategy |-> strat, maxRetries |-> maxRetries,
     attempt |-> 1, requests |-> <<>>, reads |-> <<>>, sleeps |-> <<>>,
     returned |-> FALSE, result |-> None]

(* no placement call was made *)
NoPlacing == PlaceCall(None, None, None, 0)

(* a BaseWebSocket after its constructor: no WebSocket object yet; sockets *)
(* holds the readyState of every WebSocket object the client created,      *)
(* waiting counts the calls of attemptReconnect inside their backoff delay, *)
(* closed tells that close() was called                                     *)
NoSocket ==
    [ws |-> 0, isConnected |-> FALSE, shouldReconnect |-> TRUE,
     reconnectAttempts |-> 0, sockets |-> <<>>, waiting |-> 0, closed |-> FALSE]

NoGridCall ==
    [op |-> None, decision |-> FALSE, tripped |-> FALSE, observed |-> None,
     placed |-> {}, placedAtCap |-> FALSE, slept |-> 0, handled |-> {}]

(* A TradingBot that was constructed and not started *)
BotConstructed(initialDirection) ==
    /\ wsConnected = FALSE
    /\ orders = <<>>
    /\ position = 0
    /\ pc = "Constructed"
    /\ isRunning = FALSE
    /\ direction = initialDirection
    /\ consecutiveLosses = 0
    /\ totalWins = 0
    /\ totalLosses = 0
    /\ cycle = EmptyCycle
    /\ polls = 0
    /\ cycles = 0
    /\ state = BotStateManagerInit(initialDirection)
    /\ cancelsSent = {}
    /\ outcome = None
    /\ lastBracket = NoBracket
    /\ manager = BotManagerInit

(* A MicroGridStrategy that was constructed and not started *)
GridNotStarted ==
    /\ grid = GridConstructed
    /\ market = MarketInit
    /\ gridCall = NoGridCall

(***************************************************************************)
(* Price and quantity formatting of TradingBot                             *)
(***************************************************************************)
Min(a, b) == IF a < b THEN a ELSE b

(* Math.round(x / step) * step: nearest multiple, a tie goes up *)
MathRoundTo(x, step) == ((2 * x + step) \div (2 * step)) * step

(* Math.floor(x / step) * step *)
MathFloorTo(x, step) == (x \div step) * step

formatPrice(price) ==
    LET rounded == MathRoundTo(price, tickSize)
    IN  MathRoundTo(rounded, pricePrecisionStep)

formatQuantity(qty) == MathFloorTo(qty, quantityPrecisionStep)

EntrySide(dir) == IF dir = "LONG" THEN "BUY" ELSE "SELL"
ExitSide(dir) == IF dir = "LONG" THEN "SELL" ELSE "BUY"
Opposite(dir) == IF dir = "LONG" THEN "SHORT" ELSE "LONG"

(***************************************************************************)
(* The venue: what a request does to the orders and the position           *)
(***************************************************************************)
PlaceResults == {"ok", "rejected", "timeout"}
CallResults == {"done", "fail"}

NewOrder(role, side, price, qty, acked) ==
    [role |-> role, side |-> side, status |-> "NEW", price |-> price,
     origQty |-> qty, executedQty |-> 0, acked |-> acked]

(* POST order: "ok" creates the order and answers, "timeout" creates it    *)
(* and the answer never arrives, "rejected" creates nothing                *)
VenuePlace(ords, role, side, price, qty, res) ==
    IF res = "rejected" THEN ords
    ELSE Append(ords, NewOrder(role, side, price, qty, res = "ok"))

(* DELETE order: a request the venue processes cancels an order that is    *)
(* NEW or PARTIALLY_FILLED (the executed part stays executed) and is an     *)
(* error for any other; a request that fails on the way changes nothing    *)
VenueCancel(ords, id, res) ==
    IF res = "done" /\ ords[id].status \in {"NEW", "PARTIALLY_FILLED"}
    THEN [ords EXCEPT ![id].status = "CANCELED"]
    ELSE ords

Reduces(pos, side) == (side = "SELL" /\ pos > 0) \/ (side = "BUY" /\ pos < 0)

(* MARKET reduce-only order: executes against the position when it        *)
(* reduces it, is rejected otherwise                                       *)
VenueMarketClose(pos, side, qty, res) ==
    IF res = "done" /\ Reduces(pos, side)
    THEN IF pos > 0 THEN pos - Min(qty, pos) ELSE pos + Min(qty, -pos)
    ELSE pos

OpenOrders(role) ==
    {i \in DOMAIN orders : orders[i].role = role /\ orders[i].status = "NEW"}

(***************************************************************************)
(* BotStateManager                                                         *)
(***************************************************************************)
setRunning(st, running) == [st EXCEPT !.isRunning = running]

setDirection(st, dir) == [st EXCEPT !.direction = dir]

startTrade(st, trade) == [st EXCEPT !.currentTrade = trade]

completeTrade_mut(st, exitPrice, result) ==
    IF st.currentTrade = NoTrade THEN st
    ELSE
        LET trade == [st.currentTrade EXCEPT !.exitPrice = exitPrice,
                                             !.result = result]
            unshifted == <<trade>> \o st.trades
            kept == IF Len(unshifted) > HistoryLimit
                    THEN SubSeq(unshifted, 1, Len(unshifted) - 1)
                    ELSE unshifted
        IN  [st EXCEPT
                !.totalWins = IF result = "WIN" THEN @ + 1 ELSE @,
                !.totalLosses = IF result = "WIN" THEN @ ELSE @ + 1,
                !.consecutiveLosses = IF result = "WIN" THEN @ ELSE @ + 1,
                !.trades = kept,
                !.currentTrade = NoTrade]

completeTrade(st, exitPrice, result) ==
    IF st.currentTrade = NoTrade THEN st
    ELSE
        LET trade == [st.currentTrade EXCEPT !.exitPrice = exitPrice,
                                             !.result = result]
            unshifted == <<trade>> \o st.trades
            kept == IF Len(unshifted) > HistoryLimit
                    THEN SubSeq(unshifted, 1, Len(unshifted) - 1)
                    ELSE unshifted
        IN  [st EXCEPT
                !.totalWins = IF result = "WIN" THEN @ + 1 ELSE @,
                !.totalLosses = IF result = "WIN" THEN @ ELSE @ + 1,
                !.consecutiveLosses = IF result = "WIN" THEN 0 ELSE @ + 1,
                !.trades = kept,
                !.currentTrade = NoTrade]

resetConsecutiveLosses(st) == [st EXCEPT !.consecutiveLosses = 0]

(***************************************************************************)
(* TradingBot: one action per suspension point of executeTradeCycle        *)
(***************************************************************************)
ReturnToIdle(how) ==
    /\ pc' = "Idle"
    /\ cycle' = EmptyCycle
    /\ polls' = 0
    /\ outcome' = how

LoopCondition_mut == TRUE

(* run: the condition of the while loop *)
LoopCondition == isRunning /\ state.isRunning

(* placeEntryOrder, and the return of executeTradeCycle when it fails *)
PlaceEntryOrder ==
    /\ pc = "Idle"
    /\ LoopCondition
    /\ cycles < MaxCycles
    /\ cycles' = cycles + 1
    /\ LET entryPrice == getEntryPrice(bookState, direction, entryLevel) IN
       IF entryPrice = Null
       THEN /\ ReturnToIdle("NO_ENTRY_PRICE")
            /\ UNCHANGED orders
       ELSE \E res \in PlaceResults :
            /\ orders' = VenuePlace(orders, "entry", EntrySide(direction),
                                    formatPrice(entryPrice), formatQuantity(quantity), res)
            /\ IF res = "ok"
               THEN /\ pc' = "MonitorEntry"
                    /\ cycle' = [EmptyCycle EXCEPT !.entryOrderId = Len(orders')]
                    /\ polls' = 0
                    /\ UNCHANGED outcome
               ELSE ReturnToIdle("ENTRY_NOT_PLACED")
    /\ UNCHANGED <<bookVars, wsConnected, position, restVars, isRunning, direction,
                   consecutiveLosses, totalWins, totalLosses, state, cancelsSent,
                   lastBracket>>

(* monitorEntryOrder: one iteration of the polling loop; an iteration that  *)
(* does not return ends with sleep(pollInterval)                            *)
MonitorEntryPoll ==
    /\ pc = "MonitorEntry"
    /\ polls < MaxEntryPolls
    /\ \E res \in CallResults :
         LET order == orders[cycle.entryOrderId] IN
         IF res = "fail"
         THEN /\ polls' = polls + 1
              /\ cycle' = [cycle EXCEPT !.slept = TRUE]
              /\ UNCHANGED <<pc, outcome>>
         ELSE IF order.status = "FILLED"
         THEN /\ pc' = "PlaceTpSl"
              /\ cycle' = [cycle EXCEPT !.avgPrice = order.price,
                                        !.quantity = order.executedQty]
              /\ UNCHANGED <<polls, outcome>>
         ELSE IF order.status \in {"CANCELED", "EXPIRED"}
         THEN ReturnToIdle("ENTRY_CANCELED")
         ELSE /\ polls' = polls + 1
              /\ cycle' = [cycle EXCEPT !.slept = TRUE]
              /\ UNCHANGED <<pc, outcome>>
    /\ UNCHANGED <<bookVars, wsConnected, venueVars, restVars, isRunning, direction,
                   consecutiveLosses, totalWins, totalLosses, cycles, state,
                   cancelsSent, lastBracket>>

(* monitorEntryOrder: the loop ends on the timeout, the order is canceled *)
MonitorEntryTimeout ==
    /\ pc = "MonitorEntry"
    /\ polls >= 1
    /\ \E res \in CallResults :
         orders' = VenueCancel(orders, cycle.entryOrderId, res)
    /\ cancelsSent' = cancelsSent \cup {cycle.entryOrderId}
    /\ ReturnToIdle("ENTRY_TIMEOUT")
    /\ UNCHANGED <<bookVars, wsConnected, position, restVars, isRunning, direction,
                   consecutiveLosses, totalWins, totalLosses, cycles, state,
                   lastBracket>>

RiskRewardPrices(dir, entryPrice) ==
    LET slDistance == (entryPrice * slDistancePercent) \div 100
        tpDistance == slDistance * riskRewardRatio
    IN  IF dir = "LONG"
        THEN [tp |-> entryPrice + tpDistance, sl |-> entryPrice - slDistance]
        ELSE [tp |-> entryPrice - tpDistance, sl |-> entryPrice + slDistance]

OrderbookPrices(st, dir) ==
    [tp |-> getTakeProfitPrice(st, dir, tpLevel),
     sl |-> getStopLossPrice(st, dir, slLevel)]

(* placeTpSlOrders up to the answer to the TP order *)
PlaceTpOrder ==
    /\ pc = "PlaceTpSl"
    /\ LET p == IF strategy = "risk_reward"
                THEN RiskRewardPrices(direction, cycle.avgPrice)
                ELSE OrderbookPrices(bookState, direction)
       IN  IF p.tp = Null \/ p.sl = Null
           THEN /\ pc' = "ClosePosition"
                /\ UNCHANGED <<orders, cycle>>
           ELSE \E res \in PlaceResults :
                /\ orders' = VenuePlace(orders, "tp", ExitSide(direction),
                                        formatPrice(p.tp), formatQuantity(cycle.quantity), res)
                /\ IF res = "ok"
                   THEN /\ pc' = "PlaceSl"
                        /\ cycle' = [cycle EXCEPT !.tpOrderId = Len(orders'),
                                                  !.tpPrice = p.tp,
                                                  !.slPrice = p.sl]
                   ELSE /\ pc' = "ClosePosition"
                        /\ UNCHANGED cycle
    /\ UNCHANGED <<bookVars, wsConnected, position, restVars, isRunning, direction,
                   consecutiveLosses, totalWins, totalLosses, polls, cycles, state,
                   histVars>>

(* placeTpSlOrders from the SL order on, and startTrade when both are placed *)
PlaceSlOrder ==
    /\ pc = "PlaceSl"
    /\ lastBracket' = [direction |-> direction, entry |-> cycle.avgPrice,
                       tp |-> formatPrice(cycle.tpPrice),
                       sl |-> formatPrice(cycle.slPrice)]
    /\ \E res \in PlaceResults :
        /\ orders' = VenuePlace(orders, "sl", ExitSide(direction),
                                formatPrice(cycle.slPrice), 0, res)
        /\ IF res = "ok"
           THEN /\ cycle' = [cycle EXCEPT !.slOrderId = Len(orders')]
                /\ state' = startTrade(state,
                       [direction |-> direction, entryPrice |-> cycle.avgPrice,
                        quantity |-> cycle.quantity, tpPrice |-> cycle.tpPrice,
                        slPrice |-> cycle.slPrice, exitPrice |-> Null,
                        result |-> None])
                /\ pc' = "MonitorTpSl"
                /\ polls' = 0
           ELSE /\ pc' = "CancelTp"
                /\ UNCHANGED <<cycle, state, polls>>
    /\ UNCHANGED <<bookVars, wsConnected, position, restVars, isRunning, direction,
                   consecutiveLosses, totalWins, totalLosses, cycles, cancelsSent,
                   outcome>>

(* placeTpSlOrders: the SL order failed, the TP order is canceled *)
CancelTpOrder ==
    /\ pc = "CancelTp"
    /\ \E res \in CallResults :
         orders' = VenueCancel(orders, cycle.tpOrderId, res)
    /\ cancelsSent' = cancelsSent \cup {cycle.tpOrderId}
    /\ pc' = "ClosePosition"
    /\ UNCHANGED <<bookVars, wsConnected, position, restVars, isRunning, direction,
                   consecutiveLosses, totalWins, totalLosses, cycle, polls, cycles,
                   state, outcome, lastBracket>>

(* closePosition: the effect of its market order on the venue *)
closePosition(res) ==
    position' = VenueMarketClose(position, ExitSide(direction),
                                 formatQuantity(quantity), res)

(* executeTradeCycle: no bracket, close the position and return *)
ClosePositionNoBracket ==
    /\ pc = "ClosePosition"
    /\ \E res \in CallResults : closePosition(res)
    /\ ReturnToIdle("BRACKET_FAILED")
    /\ UNCHANGED <<bookVars, wsConnected, orders, restVars, isRunning, direction,
                   consecutiveLosses, totalWins, totalLosses, cycles, state,
                   cancelsSent, lastBracket>>

ShouldSwitchDirection_mut(losses) == losses > directionSwitchLosses

(* monitorTpSlOrders: the direction is switched after this many losses in a row *)
ShouldSwitchDirection(losses) == losses >= directionSwitchLosses

(* monitorTpSlOrders: one iteration of the polling loop *)
MonitorTpSlPoll ==
    /\ pc = "MonitorTpSl"
    /\ polls < MaxTpPolls
    /\ \E res \in CallResults :
         LET tpOrder == orders[cycle.tpOrderId] IN
         IF res = "fail"
         THEN /\ polls' = polls + 1
              /\ cycle' = [cycle EXCEPT !.slept = TRUE]
              /\ UNCHANGED <<pc, outcome, direction, consecutiveLosses,
                             totalWins, totalLosses, state>>
         ELSE IF tpOrder.status = "FILLED"
         THEN /\ totalWins' = totalWins + 1
              /\ consecutiveLosses' = 0
              /\ state' = completeTrade(state, tpOrder.price, "WIN")
              /\ ReturnToIdle("WIN")
              /\ UNCHANGED <<direction, totalLosses>>
         ELSE IF tpOrder.status \in {"CANCELED", "EXPIRED"}
         THEN /\ totalLosses' = totalLosses + 1
              /\ LET losses == consecutiveLosses + 1
                     completed == completeTrade(state, cycle.slPrice, "LOSS")
                 IN  IF ShouldSwitchDirection(losses)
                     THEN /\ direction' = Opposite(direction)
                          /\ consecutiveLosses' = 0
                          /\ state' = resetConsecutiveLosses(
                                          setDirection(completed, Opposite(direction)))
                     ELSE /\ consecutiveLosses' = losses
                          /\ state' = completed
                          /\ UNCHANGED direction
              /\ ReturnToIdle("LOSS")
              /\ UNCHANGED totalWins
         ELSE /\ polls' = polls + 1
              /\ cycle' = [cycle EXCEPT !.slept = TRUE]
              /\ UNCHANGED <<pc, outcome, direction, consecutiveLosses,
                             totalWins, totalLosses, state>>
    /\ UNCHANGED <<bookVars, wsConnected, venueVars, restVars, isRunning, cycles,
                   cancelsSent, lastBracket>>

(* monitorTpSlOrders: the monitoring ceiling is reached *)
MonitorTpSlTimeout ==
    /\ pc = "MonitorTpSl"
    /\ polls >= 1
    /\ \E res \in CallResults : closePosition(res)
    /\ ReturnToIdle("TIMEOUT")
    /\ UNCHANGED <<bookVars, wsConnected, orders, restVars, isRunning, direction,
                   consecutiveLosses, totalWins, totalLosses, cycles, state,
                   cancelsSent, lastBracket>>

(* run: the loop condition fails at the top of a cycle *)
RunLoopExit ==
    /\ pc = "Idle"
    /\ ~LoopCondition
    /\ pc' = "Stopped"
    /\ isRunning' = FALSE
    /\ state' = setRunning(state, FALSE)
    /\ UNCHANGED <<bookVars, wsConnected, venueVars, restVars, direction,
                   consecutiveLosses, totalWins, totalLosses, cycle, polls, cycles,
                   histVars>>

(* BotManager.stopBot: TradingBot.stop, then state.setRunning(false) *)
StopBot ==
    /\ state.isRunning
    /\ isRunning' = FALSE
    /\ wsConnected' = FALSE
    /\ state' = setRunning(state, FALSE)
    /\ UNCHANGED <<bookVars, venueVars, restVars, pc, direction, consecutiveLosses,
                   totalWins, totalLosses, cycle, polls, cycles, histVars>>

(***************************************************************************)
(* The venue acting on its own                                             *)
(***************************************************************************)
Fill(ords, i) ==
    [ords EXCEPT ![i].status = "FILLED", ![i].executedQty = ords[i].origQty]

VenueFillEntry ==
    \E i \in OpenOrders("entry") :
        /\ orders' = Fill(orders, i)
        /\ position' = IF orders[i].side = "BUY"
                       THEN position + orders[i].origQty
                       ELSE position - orders[i].origQty
        /\ UNCHANGED <<bookVars, wsConnected, restVars, botVars, state, histVars>>

(* a part of a resting entry order executes *)
VenueFillEntryPartially ==
    \E i \in OpenOrders("entry") : \E part \in 1..(orders[i].origQty - 1) :
        /\ orders' = [orders EXCEPT ![i].status = "PARTIALLY_FILLED",
                                    ![i].executedQty = part]
        /\ position' = IF orders[i].side = "BUY"
                       THEN position + part ELSE position - part
        /\ UNCHANGED <<bookVars, wsConnected, restVars, botVars, state, histVars>>

(* the rest of a partially filled entry order executes *)
VenueFillEntryRemainder ==
    \E i \in DOMAIN orders :
        /\ orders[i].role = "entry"
        /\ orders[i].status = "PARTIALLY_FILLED"
        /\ orders' = Fill(orders, i)
        /\ position' = IF orders[i].side = "BUY"
                       THEN position + (orders[i].origQty - orders[i].executedQty)
                       ELSE position - (orders[i].origQty - orders[i].executedQty)
        /\ UNCHANGED <<bookVars, wsConnected, restVars, botVars, state, histVars>>

VenueFillTp ==
    \E i \in OpenOrders("tp") :
        /\ Reduces(position, orders[i].side)
        /\ orders' = Fill(orders, i)
        /\ position' = VenueMarketClose(position, orders[i].side, orders[i].origQty, "done")
        /\ UNCHANGED <<bookVars, wsConnected, restVars, botVars, state, histVars>>

(* the stop triggers: closePosition = true closes the whole position *)
VenueTriggerSl ==
    \E i \in OpenOrders("sl") :
        /\ Reduces(position, orders[i].side)
        /\ orders' = [orders EXCEPT ![i].status = "FILLED"]
        /\ position' = 0
        /\ UNCHANGED <<bookVars, wsConnected, restVars, botVars, state, histVars>>

(* the venue removes a resting order: an entry order at any time, a        *)
(* reduce-only or close-position order once there is nothing left to reduce *)
VenueExpire ==
    \E i \in DOMAIN orders :
        /\ orders[i].status = "NEW"
        /\ orders[i].role = "entry" \/ ~Reduces(position, orders[i].side)
        /\ orders' = [orders EXCEPT ![i].status = "EXPIRED"]
        /\ UNCHANGED <<bookVars, wsConnected, position, restVars, botVars, state,
                       histVars>>

(***************************************************************************)
(* A running TradingBot with its depth stream and the venue                *)
(***************************************************************************)
StreamBooks ==
    { << << <<"100", "1.0">>, <<"99", "2.0">> >>, << <<"101", "1.0">>, <<"102", "2.0">> >> >>,
      << << <<"97", "1.0">>, <<"96", "2.0">> >>, << <<"98", "1.0">>, <<"99", "2.0">> >> >>,
      << << <<"100", "1.0">> >>, << <<"101", "1.0">> >> >> }

(* the messages the stream delivers next: in order, up to MaxStreamId *)
StreamUpdates ==
    {d \in [b : BidSides, a : AskSides, u : 2..MaxStreamId, E : {1}] :
        /\ d.u = bookState.lastUpdateId + 1
        /\ <<d.b, d.a>> \in StreamBooks}

StreamUpdate ==
    /\ wsConnected
    /\ Update(StreamUpdates)

(* after initialize() and the first statements of run() *)
Init ==
    /\ bookState = initFromSnapshot(<< <<"100", "1.0">>, <<"99", "2.0">> >>,
                                    << <<"101", "1.0">>, <<"102", "2.0">> >>, 1, 1)
    /\ bookCall = [op |-> "initFromSnapshot", u |-> 1, tick |-> 0]
    /\ wsConnected = TRUE
    /\ orders = <<>>
    /\ position = 0
    /\ strategy \in {"orderbook", "risk_reward"}
    /\ pc = "Idle"
    /\ isRunning = TRUE
    /\ direction \in {"LONG", "SHORT"}
    /\ consecutiveLosses = 0
    /\ totalWins = 0
    /\ totalLosses = 0
    /\ cycle = EmptyCycle
    /\ polls = 0
    /\ cycles = 0
    /\ state = setRunning(BotStateManagerInit(direction), TRUE)
    /\ cancelsSent = {}
    /\ outcome = None
    /\ lastBracket = NoBracket
    /\ manager = BotManagerInit
    /\ GridNotStarted
    /\ calc = NoCalc
    /\ placing = NoPlacing
    /\ socket = NoSocket

Next ==
    \/ PlaceEntryOrder
    \/ MonitorEntryPoll
    \/ MonitorEntryTimeout
    \/ PlaceTpOrder
    \/ PlaceSlOrder
    \/ CancelTpOrder
    \/ ClosePositionNoBracket
    \/ MonitorTpSlPoll
    \/ MonitorTpSlTimeout
    \/ StreamUpdate
    \/ VenueFillEntry
    \/ VenueFillTp
    \/ VenueTriggerSl
    \/ VenueExpire

Spec == Init /\ [][Next]_vars

(* the same, with entry orders that the venue executes in parts *)
NextPartialFill ==
    \/ Next
    \/ VenueFillEntryPartially
    \/ VenueFillEntryRemainder

SpecPartialFill == Init /\ [][NextPartialFill]_vars

(* the same, with a stop request that arrives at any moment of the first   *)
(* MaxStopCycles cycles                                                    *)
CycleBeforeStop ==
    /\ ~isRunning \/ cycles < MaxStopCycles
    /\ PlaceEntryOrder

(* every step of the run loop of TradingBot *)
RunLoopStep ==
    \/ CycleBeforeStop
    \/ MonitorEntryPoll
    \/ MonitorEntryTimeout
    \/ PlaceTpOrder
    \/ PlaceSlOrder
    \/ CancelTpOrder
    \/ ClosePositionNoBracket
    \/ MonitorTpSlPoll
    \/ MonitorTpSlTimeout
    \/ RunLoopExit

NextStop ==
    \/ RunLoopStep
    \/ StopBot
    \/ StreamUpdate
    \/ VenueFillEntry
    \/ VenueFillTp
    \/ VenueTriggerSl
    \/ VenueExpire

SpecStop == Init /\ [][NextStop]_vars

(* the requests to the venue return and the event loop resumes the run     *)
(* loop after each of them                                                 *)
SpecStopFair == SpecStop /\ WF_vars(RunLoopStep)

(***************************************************************************)
(* BotManager: startBot and stopBot called in any order                    *)
(***************************************************************************)
(* the instance in currentBot is inside run() *)
InRunLoop == pc \notin {"Constructed", "Stopped"}

(* instances inside run(): the current one and the earlier ones *)
InstancesInRunLoop ==
    manager.stopped + manager.unstopped + (IF InRunLoop THEN 1 ELSE 0)

(* startBot up to the await of initialize(): the double-start check, the   *)
(* reloaded config, and a new TradingBot stored in currentBot; an instance *)
(* that was in currentBot and is still inside run() keeps running          *)
StartBotCall ==
    /\ ~(state.isRunning \/ manager.isStarting)
    /\ InRunLoop => manager.stopped + manager.unstopped < MaxOrphans
    /\ manager' = [isStarting |-> TRUE,
                   stopped |-> manager.stopped
                                 + (IF InRunLoop /\ ~isRunning THEN 1 ELSE 0),
                   unstopped |-> manager.unstopped
                                 + (IF InRunLoop /\ isRunning THEN 1 ELSE 0)]
    /\ strategy' \in {"orderbook", "risk_reward"}
    /\ direction' \in {"LONG", "SHORT"}
    /\ bookState' = EmptyBook
    /\ wsConnected' = FALSE
    /\ pc' = "Constructed"
    /\ isRunning' = FALSE
    /\ consecutiveLosses' = 0
    /\ totalWins' = 0
    /\ totalLosses' = 0
    /\ cycle' = EmptyCycle
    /\ polls' = 0
    /\ UNCHANGED <<bookCall, venueVars, gridVars, cycles, state, histVars>>

(* startBot after initialize(): the snapshot is loaded, the stream is      *)
(* connected, and run() executes up to its first await                     *)
StartBotInitialized ==
    /\ manager.isStarting
    /\ pc = "Constructed"
    /\ \E book \in StreamBooks :
         /\ bookState' = initFromSnapshot(book[1], book[2], 1, 1)
         /\ bookCall' = [op |-> "initFromSnapshot", u |-> 1,
                         tick |-> Flip(bookCall.tick)]
    /\ wsConnected' = TRUE
    /\ isRunning' = TRUE
    /\ state' = setDirection(setRunning(state, TRUE), direction)
    /\ pc' = "Idle"
    /\ manager' = [manager EXCEPT !.isStarting = FALSE]
    /\ UNCHANGED <<venueVars, strategy, gridVars, direction, consecutiveLosses,
                   totalWins, totalLosses, cycle, polls, cycles, histVars>>

(* startBot: initialize() throws *)
StartBotFailed ==
    /\ manager.isStarting
    /\ pc = "Constructed"
    /\ manager' = [manager EXCEPT !.isStarting = FALSE]
    /\ UNCHANGED <<bookVars, wsConnected, venueVars, strategy, gridVars, botVars,
                   state, histVars>>

(* an earlier instance reaches the top of its loop, finds the condition    *)
(* false and leaves run(), which clears the running flag of the state      *)
(* manager                                                                 *)
EarlierInstanceExits ==
    /\ \/ /\ manager.stopped > 0
          /\ manager' = [manager EXCEPT !.stopped = @ - 1]
       \/ /\ manager.unstopped > 0
          /\ ~state.isRunning
          /\ manager' = [manager EXCEPT !.unstopped = @ - 1]
    /\ state' = setRunning(state, FALSE)
    /\ UNCHANGED <<bookVars, wsConnected, venueVars, strategy, gridVars, botVars,
                   histVars>>

NextManager ==
    \/ NextStop
    \/ StartBotCall
    \/ StartBotInitialized
    \/ StartBotFailed
    \/ EarlierInstanceExits

SpecManager == Init /\ [][NextManager]_vars

(***************************************************************************)
(* MicroGridStrategy: the safety checks of its loop                        *)
(***************************************************************************)
Abs(x) == IF x < 0 THEN -x ELSE x

(* the balance the loss is compared with: dailyStartBalance is assigned    *)
(* nowhere, so the fallback of 1000 is what is used                        *)
estimatedBalance(g) ==
    IF g.dailyStartBalance > 0 THEN g.dailyStartBalance ELSE 1000

(* |dailyPnL| / estimatedBalance >= dailyLossLimit, both sides multiplied  *)
(* by estimatedBalance * RateScale                                         *)
checkCircuitBreaker_mut(g) ==
    \/ g.dailyPnL < 0 /\ Abs(g.dailyPnL) > g.dailyLossLimit * estimatedBalance(g)
    \/ g.consecutiveLosses >= maxConsecutiveLosses

checkCircuitBreaker(g) ==
    \/ g.dailyPnL < 0 /\ Abs(g.dailyPnL) >= g.dailyLossLimit * estimatedBalance(g)
    \/ g.consecutiveLosses >= maxConsecutiveLosses

(* checkDailyReset: a new calendar day clears the day's figures *)
checkDailyReset(g, today) ==
    IF g.tradingDay # today
    THEN [g EXCEPT !.tradingDay = today, !.dailyPnL = 0,
                   !.consecutiveLosses = 0, !.isCircuitBroken = FALSE]
    ELSE g

isPriceInRange(g, currentPrice) ==
    \/ g.initialPrice = 0
    \/ /\ currentPrice * RateScale >= g.initialPrice * (RateScale - priceRangePercent)
       /\ currentPrice * RateScale <= g.initialPrice * (RateScale + priceRangePercent)

(***************************************************************************)
(* The circuit-breaker decision on its own, for any figures of the day     *)
(***************************************************************************)
MaxLossesSeen == 6

(* daily P&L in price units, and the limits 5 % and 10 % *)
DailyPnLs == {-120, -100, -60, -50, -40, 0, 60}
DailyLossLimits == {500, 1000}

InitBreaker ==
    /\ bookState = EmptyBook
    /\ bookCall = [op |-> None, u |-> 0, tick |-> 0]
    /\ strategy = "micro_grid"
    /\ BotConstructed("LONG")
    /\ calc = NoCalc
    /\ placing = NoPlacing
    /\ socket = NoSocket
    /\ market = MarketInit
    /\ gridCall = NoGridCall
    /\ \E pnl \in DailyPnLs, limit \in DailyLossLimits, losses \in 0..MaxLossesSeen :
           grid = [GridConstructed EXCEPT !.tradingDay = market.day,
                                          !.dailyPnL = pnl * RateScale,
                                          !.dailyLossLimit = limit,
                                          !.consecutiveLosses = losses]

(* the check at the top of a loop iteration *)
CheckCircuitBreaker ==
    /\ gridCall.op = None
    /\ grid' = [grid EXCEPT !.isCircuitBroken = @ \/ checkCircuitBreaker(grid)]
    /\ gridCall' = [NoGridCall EXCEPT !.op = "checkCircuitBreaker",
                                      !.decision = checkCircuitBreaker(grid)]
    /\ UNCHANGED <<bookVars, wsConnected, venueVars, botVars, state, histVars,
                   strategy, manager, market, calc, placing, socket>>

NextBreaker == CheckCircuitBreaker

SpecBreaker == InitBreaker /\ [][NextBreaker]_vars

(***************************************************************************)
(* MicroGridStrategy: the requests it sends and what they do               *)
(*                                                                         *)
(* The methods work on a record w: the strategy's fields (g), the venue's  *)
(* orders, position and entry price, the dashboard state, the value the    *)
(* last placement returned (ret, 0 for null or an EXPIRED answer) and what *)
(* the step has placed so far, and the mid price (in ticks) the venue's    *)
(* book shows during the step.  f names the kind of request that fails     *)
(* during the step, elapsed whether the configured waiting times (the      *)
(* re-pricing timeout, the stabilization wait) are over.                   *)
(***************************************************************************)
Faults ==
    {"none", "cancelAll", "cancel", "position", "query", "close",
     "place"}
ElapsedTimes == {"short", "long"}

Res(f, kind) == IF f = kind THEN "fail" ELSE "done"

(* a placement that leaves no order resting: the request is refused, or    *)
(* (timeInForce GTX) the order would take liquidity and is answered        *)
(* EXPIRED; the strategy treats the two alike                              *)
PlaceResult(f) == IF f = "place" THEN "rejected" ELSE "ok"

World(mid) ==
    [g |-> grid, orders |-> orders, position |-> position,
     entryPrice |-> market.entryPrice, state |-> state, ret |-> 0,
     placed |-> {}, placedAtCap |-> FALSE, mid |-> mid, slept |-> 0,
     handled |-> {}]

(* the sleeps of the main loop, in milliseconds: while the circuit breaker *)
(* is active, while paused or after an error, and at the end of a pass     *)
CircuitBreakerSleep == 60000
PausedSleep == 5000
LoopSleep == 2000

(* await this.sleep(ms) at the end of a pass of the loop *)
Slept(w, ms) == [w EXCEPT !.slept = ms]

Max(a, b) == IF a > b THEN a ELSE b

(* the venue's book: best bid one tick below the mid, best ask one above *)
getOrderbookPrices(w) ==
    [bid |-> (w.mid - 1) * tickSize, ask |-> (w.mid + 1) * tickSize,
     mid |-> w.mid * tickSize]

getCurrentPrice(w) == getOrderbookPrices(w).mid

(* formatPrice of the price num / den: nearest tick, then the precision *)
gridFormatPrice(num, den) ==
    LET rounded == ((2 * num + tickSize * den) \div (2 * tickSize * den)) * tickSize
    IN  MathRoundTo(rounded, pricePrecisionStep)

cancelAllOrders(w, f) ==
    IF f = "cancelAll" THEN w
    ELSE [w EXCEPT
            !.orders = [i \in DOMAIN w.orders |->
                          IF w.orders[i].status = "NEW"
                          THEN [w.orders[i] EXCEPT !.status = "CANCELED"]
                          ELSE w.orders[i]],
            !.g.activeBuyOrderId = 0,
            !.g.activeSellOrderId = 0]

getCurrentPositionSize(w, f) ==
    IF f = "position" THEN 0 ELSE Abs(w.position)

canOpenPosition(w, f) == getCurrentPositionSize(w, f) < maxPositionSize

getPositionInfo(w, f) ==
    IF f = "position" \/ w.position = 0
    THEN [side |-> "NONE", size |-> 0, entryPrice |-> 0]
    ELSE [side |-> IF w.position > 0 THEN "LONG" ELSE "SHORT",
          size |-> Abs(w.position), entryPrice |-> w.entryPrice]

(* addPriceObservation: the distinct prices inside the lookback window;    *)
(* no observation leaves the window during the steps that are followed     *)
addPriceObservation(g, price) ==
    [g EXCEPT !.priceHistory = @ \cup {price}]

(* standard deviation / mean: 0 for fewer than two observations or equal   *)
(* prices; prices one tick (1 %) apart give at least 0.08 % for any number *)
(* of observations one lookback window holds                               *)
calculateVolatility(g) ==
    IF Cardinality(g.priceHistory) < 2 THEN 0 ELSE 8

updateDynamicSpread(g, currentPrice) ==
    LET g1 == addPriceObservation(g, currentPrice)
        volatility == calculateVolatility(g1)
    IN  IF volatility = 0
        THEN [g1 EXCEPT !.currentSpread = spreadGapPercent]
        ELSE [g1 EXCEPT !.currentSpread =
                Max(minSpreadPercent,
                    Min(maxSpreadPercent, spreadGapPercent + volatility * 10))]

updateRollingPriceRange(w) ==
    IF w.g.tradesSinceRangeUpdate + 1 >= rollingPriceUpdateTrades
    THEN [w EXCEPT !.g.initialPrice = getCurrentPrice(w),
                   !.g.tradesSinceRangeUpdate = 0]
    ELSE [w EXCEPT !.g.tradesSinceRangeUpdate = @ + 1]

(* net P&L in 1 / RateScale of a price unit, the maker fee on both legs *)
calculateNetPnL(entryPrice, exitPrice, qty, dir) ==
    LET grossPnL == IF dir = "LONG" THEN (exitPrice - entryPrice) * qty
                    ELSE (entryPrice - exitPrice) * qty
        fees == (entryPrice * qty + exitPrice * qty) * makerFeePercent
    IN  grossPnL * RateScale - fees

addForceClose_mut(st, dir, entryPrice, exitPrice, qty, netPnL) ==
    LET trade == [direction |-> dir, entryPrice |-> entryPrice,
                  quantity |-> qty, tpPrice |-> 0, slPrice |-> 0,
                  exitPrice |-> exitPrice,
                  result |-> IF netPnL >= 0 THEN "WIN" ELSE "LOSS"]
        unshifted == <<trade>> \o st.trades
        kept == IF Len(unshifted) > HistoryLimit
                THEN Tail(unshifted)
                ELSE unshifted
    IN  [st EXCEPT
            !.totalLosses = IF netPnL < 0 THEN @ + 1 ELSE @,
            !.totalWins = IF netPnL > 0 THEN @ + 1 ELSE @,
            !.consecutiveLosses = IF netPnL < 0 THEN @ + 1
                                  ELSE IF netPnL > 0 THEN 0 ELSE @,
            !.trades = kept]

(* BotStateManager.addForceClose *)
addForceClose(st, dir, entryPrice, exitPrice, qty, netPnL) ==
    LET trade == [direction |-> dir, entryPrice |-> entryPrice,
                  quantity |-> qty, tpPrice |-> 0, slPrice |-> 0,
                  exitPrice |-> exitPrice,
                  result |-> IF netPnL >= 0 THEN "WIN" ELSE "LOSS"]
        unshifted == <<trade>> \o st.trades
        kept == IF Len(unshifted) > HistoryLimit
                THEN SubSeq(unshifted, 1, Len(unshifted) - 1)
                ELSE unshifted
    IN  [st EXCEPT
            !.totalLosses = IF netPnL < 0 THEN @ + 1 ELSE @,
            !.totalWins = IF netPnL > 0 THEN @ + 1 ELSE @,
            !.consecutiveLosses = IF netPnL < 0 THEN @ + 1
                                  ELSE IF netPnL > 0 THEN 0 ELSE @,
            !.trades = kept]

(* closePosition: cancel everything, read the position, close it at market *)
(* and book the result; an error anywhere ends the method                  *)
gridClosePosition(w, f) ==
    LET w1 == cancelAllOrders(w, f)
        qty == formatQuantity(Abs(w1.position))
        dir == IF w1.position > 0 THEN "LONG" ELSE "SHORT"
        currentPrice == getCurrentPrice(w)
        grossPnL == IF dir = "LONG" THEN (currentPrice - w1.entryPrice) * qty
                    ELSE (w1.entryPrice - currentPrice) * qty
        totalFee == w1.entryPrice * qty * makerFeePercent
                      + currentPrice * qty * takerFeePercent
        netPnL == grossPnL * RateScale - totalFee
        closed == VenueMarketClose(w1.position, ExitSide(dir), qty, "done")
    IN  IF f = "position" \/ w1.position = 0 \/ f = "close" THEN w1
        ELSE [w1 EXCEPT
                !.position = closed,
                !.entryPrice = IF closed = 0 THEN 0 ELSE @,
                !.g.dailyPnL = @ + netPnL,
                !.g.consecutiveLosses = IF netPnL < 0 THEN @ + 1 ELSE 0,
                !.state = addForceClose(@, dir, w1.entryPrice, currentPrice,
                                        qty, netPnL),
                !.g.lastEntrySide = None,
                !.g.lastEntryPrice = 0,
                !.g.lastEntryQty = 0]

(* placeGTXOrder for the price num / RateScale *)
placeGTXOrder(w, side, num, f) ==
    LET order == NewOrder("GTX", side, gridFormatPrice(num, RateScale),
                          formatQuantity(quantity), TRUE)
    IN  IF PlaceResult(f) = "rejected" THEN [w EXCEPT !.ret = 0]
        ELSE [w EXCEPT
                !.orders = Append(@, order),
                !.ret = Len(w.orders) + 1,
                !.placed = @ \cup {"GTX"},
                !.placedAtCap = @ \/ Abs(w.position) >= maxPositionSize]

(* the caller keeps the id of an order that was answered and not EXPIRED *)
TrackOrder(w, side) ==
    IF w.ret = 0 THEN w
    ELSE IF side = "BUY" THEN [w EXCEPT !.g.activeBuyOrderId = w.ret]
    ELSE [w EXCEPT !.g.activeSellOrderId = w.ret]

PlaceBuy(w, f) ==
    TrackOrder(placeGTXOrder(w, "BUY",
                   getOrderbookPrices(w).bid * (RateScale - w.g.currentSpread), f),
               "BUY")

PlaceSell(w, f) ==
    TrackOrder(placeGTXOrder(w, "SELL",
                   getOrderbookPrices(w).ask * (RateScale + w.g.currentSpread), f),
               "SELL")

placeInitialBracket(w, f) == PlaceSell(PlaceBuy(w, f), f)

(* the completed trade a fill on the opposite side of the entry records *)
CompleteGridTrade(w, dir, fillPrice) ==
    LET netPnL == calculateNetPnL(w.g.lastEntryPrice, fillPrice,
                                  w.g.lastEntryQty, dir)
        isProfit == netPnL > 0
        gap == IF dir = "LONG" THEN spreadGapPercent ELSE -spreadGapPercent
        trade == [direction |-> dir, entryPrice |-> w.g.lastEntryPrice,
                  quantity |-> w.g.lastEntryQty,
                  tpPrice |-> (w.g.lastEntryPrice * (RateScale + gap)) \div RateScale,
                  slPrice |-> (w.g.lastEntryPrice * (RateScale - 2 * gap)) \div RateScale,
                  exitPrice |-> Null, result |-> None]
    IN  updateRollingPriceRange(
            [w EXCEPT
               !.g.dailyPnL = @ + netPnL,
               !.g.consecutiveLosses = IF isProfit THEN 0 ELSE @ + 1,
               !.state = completeTrade(startTrade(@, trade), fillPrice,
                                       IF isProfit THEN "WIN" ELSE "LOSS")])

handleBuyFill(w, fillPrice, qty, f) ==
    LET w1 == IF w.g.lastEntrySide = "SELL" /\ w.g.lastEntryPrice > 0
              THEN CompleteGridTrade(w, "SHORT", fillPrice)
              ELSE w
        w2 == [w1 EXCEPT !.g.lastEntrySide = "BUY",
                         !.g.lastEntryPrice = fillPrice,
                         !.g.lastEntryQty = qty]
        w3 == IF w2.g.activeSellOrderId # 0
              THEN [w2 EXCEPT
                      !.orders = VenueCancel(@, w2.g.activeSellOrderId,
                                             Res(f, "cancel")),
                      !.g.activeSellOrderId = 0]
              ELSE w2
    IN  IF ~canOpenPosition(w3, f) THEN w3
        ELSE PlaceBuy(PlaceSell(w3, f), f)

handleSellFill(w, fillPrice, qty, f) ==
    LET w1 == IF w.g.lastEntrySide = "BUY" /\ w.g.lastEntryPrice > 0
              THEN CompleteGridTrade(w, "LONG", fillPrice)
              ELSE w
        w2 == [w1 EXCEPT !.g.lastEntrySide = "SELL",
                         !.g.lastEntryPrice = fillPrice,
                         !.g.lastEntryQty = qty]
        w3 == IF w2.g.activeBuyOrderId # 0
              THEN [w2 EXCEPT
                      !.orders = VenueCancel(@, w2.g.activeBuyOrderId,
                                             Res(f, "cancel")),
                      !.g.activeBuyOrderId = 0]
              ELSE w2
    IN  IF ~canOpenPosition(w3, f) THEN w3
        ELSE PlaceSell(PlaceBuy(w3, f), f)

(* tradesCompleted++ and the call of the handler for the standing order of *)
(* this side, found FILLED: the step remembers the side                    *)
Handled(w, side) == [w EXCEPT !.handled = @ \cup {side}]

checkOrdersAndHandleFills(w, f) ==
    LET buy == w.orders[w.g.activeBuyOrderId]
        w1 == IF w.g.activeBuyOrderId = 0 \/ f = "query" THEN w
              ELSE IF buy.status = "FILLED"
              THEN handleBuyFill(Handled(w, "BUY"),
                                 buy.price, buy.executedQty, f)
              ELSE IF buy.status \in {"CANCELED", "EXPIRED"}
              THEN [w EXCEPT !.g.activeBuyOrderId = 0]
              ELSE w
        sell == w1.orders[w1.g.activeSellOrderId]
    IN  IF w1.g.activeSellOrderId = 0 \/ f = "query" THEN w1
        ELSE IF sell.status = "FILLED"
        THEN handleSellFill(Handled(w1, "SELL"),
                            sell.price, sell.executedQty, f)
        ELSE IF sell.status \in {"CANCELED", "EXPIRED"}
        THEN [w1 EXCEPT !.g.activeSellOrderId = 0]
        ELSE w1

ensureBracketExists(w, f) ==
    IF ~canOpenPosition(w, f) THEN w
    ELSE LET w1 == IF w.g.activeBuyOrderId = 0 THEN PlaceBuy(w, f) ELSE w
         IN  IF w1.g.activeSellOrderId = 0 THEN PlaceSell(w1, f) ELSE w1

(***************************************************************************)
(* MicroGridStrategy: position reduction                                   *)
(***************************************************************************)
(* a reduce-only LIMIT order at the touch; the venue refuses one that does *)
(* not reduce the position                                                 *)
placeReduceOnlyOrder(w, f) ==
    LET side == w.g.reduceOnlyOrderSide
        price == IF side = "SELL" THEN getOrderbookPrices(w).bid
                 ELSE getOrderbookPrices(w).ask
        res == IF Reduces(w.position, side) THEN PlaceResult(f) ELSE "rejected"
        order == NewOrder("REDUCE", side, gridFormatPrice(price, 1),
                          formatQuantity(quantity), TRUE)
    IN  IF res = "rejected" THEN w
        ELSE [w EXCEPT !.orders = Append(@, order),
                       !.placed = @ \cup {"REDUCE"},
                       !.g.reduceOnlyOrderId = Len(w.orders) + 1]

startPositionReduction(w, f) ==
    LET posInfo == getPositionInfo(w, f)
        w1 == cancelAllOrders(w, f)
    IN  IF w.g.isReducingPosition \/ posInfo.side = "NONE" \/ posInfo.size = 0
        THEN w
        ELSE placeReduceOnlyOrder(
                 [w1 EXCEPT
                    !.g.isReducingPosition = TRUE,
                    !.g.reductionStartPrice = getCurrentPrice(w),
                    !.g.reductionStartPositionSize = posInfo.size,
                    !.g.reduceOnlyOrderSide =
                        IF posInfo.side = "LONG" THEN "SELL" ELSE "BUY"], f)

exitReductionMode(w) ==
    [w EXCEPT !.g.isReducingPosition = FALSE,
              !.g.reductionStartPrice = 0,
              !.g.reductionStartPositionSize = 0,
              !.g.reduceOnlyOrderId = 0,
              !.g.reduceOnlyOrderSide = None]

cancelReduceOnlyOrder(w, f) ==
    IF w.g.reduceOnlyOrderId = 0 THEN w
    ELSE [w EXCEPT !.orders = VenueCancel(@, w.g.reduceOnlyOrderId,
                                          Res(f, "cancel")),
                   !.g.reduceOnlyOrderId = 0]

checkReduceOnlyOrderStatus(w, f, elapsed) ==
    LET order == w.orders[w.g.reduceOnlyOrderId]
        dir == IF w.g.reduceOnlyOrderSide = "SELL" THEN "LONG" ELSE "SHORT"
        netPnL == calculateNetPnL(
                      IF w.g.lastEntryPrice # 0 THEN w.g.lastEntryPrice
                      ELSE order.price,
                      order.price, order.executedQty, dir)
        w1 == [w EXCEPT !.g.dailyPnL = @ + netPnL, !.g.reduceOnlyOrderId = 0]
        currentPos == getPositionInfo(w1, f)
        start == w1.g.reductionStartPositionSize
    IN  IF w.g.reduceOnlyOrderId = 0 \/ f = "query" THEN w
        ELSE IF order.status = "FILLED"
        THEN IF currentPos.size = 0 THEN exitReductionMode(w1)
             ELSE IF (start - currentPos.size) * RateScale
                        >= positionResumeThresholdPercent * start
             THEN exitReductionMode(w1)
             ELSE placeReduceOnlyOrder(w1, f)
        ELSE IF order.status \in {"CANCELED", "EXPIRED"}
        THEN placeReduceOnlyOrder([w EXCEPT !.g.reduceOnlyOrderId = 0], f)
        ELSE IF elapsed = "long"
        THEN placeReduceOnlyOrder(cancelReduceOnlyOrder(w, f), f)
        ELSE w

checkEmergencyClose(w) ==
    Abs(getCurrentPrice(w) - w.g.reductionStartPrice) * RateScale
        >= emergencyCloseDeviationPercent * w.g.reductionStartPrice

emergencyCloseAll(w, f) ==
    LET w1 == gridClosePosition(
                  cancelReduceOnlyOrder(cancelAllOrders(w, f), f), f)
    IN  [w1 EXCEPT !.g.isReducingPosition = FALSE,
                   !.g.isWaitingForStabilization = TRUE]

handlePositionReduction(w, f, elapsed) ==
    LET w1 == checkReduceOnlyOrderStatus(w, f, elapsed)
    IN  IF checkEmergencyClose(w) THEN emergencyCloseAll(w, f)
        ELSE IF w1.g.isReducingPosition /\ w1.g.reduceOnlyOrderId = 0
        THEN IF getPositionInfo(w1, f).size > 0
             THEN placeReduceOnlyOrder(w1, f)
             ELSE exitReductionMode(w1)
        ELSE w1

(***************************************************************************)
(* MicroGridStrategy: run(), one action per loop iteration                 *)
(***************************************************************************)
MaxGridOrders == 4
MaxDay == 2
StartMid == 100
GridMids == {97, 100, 101}

(* the calendar days a step can read: the one read last or the next *)
Days == {d \in {market.day, market.day + 1} : d <= MaxDay}

(* what a step of the strategy leaves behind *)
Commit(w, today) ==
    /\ grid' = w.g
    /\ orders' = w.orders
    /\ position' = w.position
    /\ market' = [day |-> today, entryPrice |-> w.entryPrice]
    /\ state' = w.state
    /\ UNCHANGED <<bookVars, wsConnected, botVars, histVars, strategy, manager,
                   calc, placing, socket>>

(* initialize() and run() up to the loop *)
GridRunStart ==
    /\ strategy = "micro_grid"
    /\ grid.pc = "Constructed"
    /\ \E f \in Faults, today \in Days :
         LET w0 == cancelAllOrders(World(StartMid), f)
             w1 == [w0 EXCEPT
                      !.g = [checkDailyReset(@, today) EXCEPT
                               !.isRunning = TRUE,
                               !.initialPrice = getCurrentPrice(w0),
                               !.pc = "Loop"],
                      !.state = setDirection(setRunning(@, TRUE), "LONG")]
             w == placeInitialBracket(w1, f)
         IN  /\ Commit(w, today)
             /\ gridCall' = [NoGridCall EXCEPT !.op = "run",
                                               !.placed = w.placed,
                                               !.placedAtCap = w.placedAtCap]

(* the loop body after the daily reset and the circuit-breaker check *)
LoopBody(w, decision, inRange, f, elapsed) ==
    LET resumed == IF w.g.isPaused
                   THEN placeInitialBracket([w EXCEPT !.g.isPaused = FALSE], f)
                   ELSE w
        waited == [resumed EXCEPT !.g.isWaitingForStabilization = FALSE]
        spread == [waited EXCEPT
                     !.g = updateDynamicSpread(@, getCurrentPrice(w))]
        checked == checkOrdersAndHandleFills(spread, f)
    IN  IF decision THEN Slept(gridClosePosition(w, f), CircuitBreakerSleep)
        ELSE IF ~inRange
        THEN IF ~w.g.isPaused
             THEN Slept(gridClosePosition([w EXCEPT !.g.isPaused = TRUE], f),
                        PausedSleep)
             ELSE Slept(w, PausedSleep)
        ELSE IF resumed.g.isWaitingForStabilization /\ elapsed = "short"
        THEN Slept(resumed, LoopSleep)
        ELSE IF waited.g.isReducingPosition
        THEN Slept(handlePositionReduction(waited, f, elapsed), LoopSleep)
        ELSE IF canOpenPosition(checked, f)
        THEN Slept(ensureBracketExists(checked, f), LoopSleep)
        ELSE startPositionReduction(checked, f)

(* what a pass of the loop leaves behind, and what it did *)
CommitPass(w, today, decision, tripped, inRange) ==
    /\ Commit(w, today)
    /\ gridCall' = [op |-> "tick", decision |-> decision,
                    tripped |-> tripped,
                    observed |-> IF decision THEN "breaker"
                                 ELSE IF inRange THEN "in" ELSE "out",
                    placed |-> w.placed,
                    placedAtCap |-> w.placedAtCap,
                    slept |-> w.slept,
                    handled |-> w.handled]

(* one iteration of the loop, followed while fewer than maxOrders orders   *)
(* were placed                                                             *)
GridTickWithin(maxOrders) ==
    /\ grid.pc = "Loop"
    /\ grid.isRunning /\ state.isRunning
    /\ Len(orders) < maxOrders
    /\ \E f \in Faults, elapsed \in ElapsedTimes, mid \in GridMids, today \in Days :
         LET g1 == checkDailyReset(grid, today)
             decision == checkCircuitBreaker(g1)
             w1 == [World(mid) EXCEPT
                      !.g = [g1 EXCEPT !.isCircuitBroken = @ \/ decision]]
             inRange == isPriceInRange(g1, getCurrentPrice(w1))
         IN  CommitPass(LoopBody(w1, decision, inRange, f, elapsed), today,
                        decision, g1.isCircuitBroken, inRange)

GridTick == GridTickWithin(MaxGridOrders)

(* stop(), called by BotManager.stopBot *)
GridStop ==
    /\ grid.pc = "Loop"
    /\ grid.isRunning
    /\ \E f \in {"none", "cancelAll"} :
         LET w0 == cancelAllOrders([World(0) EXCEPT !.g.isRunning = FALSE], f)
             w == [w0 EXCEPT !.state = setRunning(@, FALSE)]
         IN  /\ Commit(w, market.day)
             /\ gridCall' = [NoGridCall EXCEPT !.op = "stop"]

(* the loop condition is false: run() calls stop() and returns *)
GridRunExit ==
    /\ grid.pc = "Loop"
    /\ ~(grid.isRunning /\ state.isRunning)
    /\ \E f \in {"none", "cancelAll"} :
         LET w0 == cancelAllOrders([World(0) EXCEPT !.g.isRunning = FALSE,
                                                    !.g.pc = "Stopped"], f)
             w == [w0 EXCEPT !.state = setRunning(@, FALSE)]
         IN  /\ Commit(w, market.day)
             /\ gridCall' = [NoGridCall EXCEPT !.op = "exit"]

(***************************************************************************)
(* The venue around the strategy                                           *)
(***************************************************************************)
(* followed until run() has returned *)
EnvStep ==
    /\ grid.pc # "Stopped"
    /\ gridCall' = [NoGridCall EXCEPT !.op = "env"]

(* the position after qty more was bought or sold at price: the entry      *)
(* price is the average over the open quantity, in whole price units       *)
PositionAfter(pos, entryPrice, side, price, qty) ==
    LET signed == IF side = "BUY" THEN qty ELSE -qty
        new == pos + signed
    IN  [position |-> new,
         entryPrice |->
            IF new = 0 THEN 0
            ELSE IF pos = 0 \/ (pos > 0) # (new > 0) THEN price
            ELSE IF Abs(new) > Abs(pos)
            THEN (entryPrice * Abs(pos) + price * qty) \div Abs(new)
            ELSE entryPrice]

(* a resting order of the strategy is filled at its price *)
VenueFillGrid ==
    \E i \in DOMAIN orders :
        /\ orders[i].role \in {"GTX", "REDUCE"}
        /\ orders[i].status = "NEW"
        /\ orders[i].role = "REDUCE" => Reduces(position, orders[i].side)
        /\ LET after == PositionAfter(position, market.entryPrice, orders[i].side,
                                      orders[i].price, orders[i].origQty)
           IN  /\ orders' = Fill(orders, i)
               /\ position' = after.position
               /\ market' = [market EXCEPT !.entryPrice = after.entryPrice]
        /\ EnvStep
        /\ UNCHANGED <<bookVars, wsConnected, botVars, state, histVars,
                       strategy, manager, grid, calc, placing, socket>>

InitGrid ==
    /\ bookState = EmptyBook
    /\ bookCall = [op |-> None, u |-> 0, tick |-> 0]
    /\ strategy = "micro_grid"
    /\ BotConstructed("LONG")
    /\ GridNotStarted
    /\ calc = NoCalc
    /\ placing = NoPlacing
    /\ socket = NoSocket

(* the strategy running, nobody stopping it *)
NextGrid ==
    \/ GridRunStart
    \/ GridTick
    \/ VenueFillGrid

SpecGrid == InitGrid /\ [][NextGrid]_vars

(* the same with stop() called at any moment *)
NextGridStop ==
    \/ NextGrid
    \/ GridStop
    \/ GridRunExit

SpecGridStop == InitGrid /\ [][NextGridStop]_vars

(***************************************************************************)
(* The strategy from the moment it starts to reduce its position: the      *)
(* bracket BUY and the refill BUY were filled at 99, which brought the     *)
(* position to the cap, and the tick that handled the second fill          *)
(* cancelled the SELL orders and placed the first reduce-only SELL.        *)
(***************************************************************************)
MaxReductionOrders == 7

ReductionStartOrders ==
    LET buy == [NewOrder("GTX", "BUY", (StartMid - 1) * tickSize, quantity, TRUE)
                  EXCEPT !.status = "FILLED", !.executedQty = quantity]
        sell == [NewOrder("GTX", "SELL", (StartMid + 1) * tickSize, quantity, TRUE)
                   EXCEPT !.status = "CANCELED"]
    IN  <<buy, sell, sell, buy,
          NewOrder("REDUCE", "SELL", (StartMid - 1) * tickSize, quantity, TRUE)>>

ReductionStartGrid ==
    [GridConstructed EXCEPT
        !.pc = "Loop", !.isRunning = TRUE, !.tradingDay = 1,
        !.initialPrice = StartMid * tickSize,
        !.priceHistory = {StartMid * tickSize},
        !.lastEntrySide = "BUY",
        !.lastEntryPrice = (StartMid - 1) * tickSize,
        !.lastEntryQty = quantity,
        !.isReducingPosition = TRUE,
        !.reductionStartPrice = StartMid * tickSize,
        !.reductionStartPositionSize = maxPositionSize,
        !.reduceOnlyOrderId = 5,
        !.reduceOnlyOrderSide = "SELL"]

ReductionStarted ==
    /\ grid = ReductionStartGrid
    /\ orders = ReductionStartOrders
    /\ position = maxPositionSize
    /\ market = [day |-> 1, entryPrice |-> (StartMid - 1) * tickSize]
    /\ state = setDirection(setRunning(BotStateManagerInit("LONG"), TRUE), "LONG")
    /\ gridCall = [NoGridCall EXCEPT !.op = "tick", !.observed = "in",
                                     !.placed = {"REDUCE"}]

InitReduce ==
    /\ bookState = EmptyBook
    /\ bookCall = [op |-> None, u |-> 0, tick |-> 0]
    /\ strategy = "micro_grid"
    /\ wsConnected = FALSE
    /\ pc = "Constructed"
    /\ isRunning = FALSE
    /\ direction = "LONG"
    /\ consecutiveLosses = 0
    /\ totalWins = 0
    /\ totalLosses = 0
    /\ cycle = EmptyCycle
    /\ polls = 0
    /\ cycles = 0
    /\ cancelsSent = {}
    /\ outcome = None
    /\ lastBracket = NoBracket
    /\ manager = BotManagerInit
    /\ calc = NoCalc
    /\ placing = NoPlacing
    /\ socket = NoSocket
    /\ ReductionStarted

(* the ticks of the position reduction *)
ReductionTick ==
    /\ grid.isReducingPosition
    /\ GridTickWithin(MaxReductionOrders)

NextReduce ==
    \/ ReductionTick
    \/ VenueFillGrid

SpecReduce == InitReduce /\ [][NextReduce]_vars

(***************************************************************************)
(* Properties of the trade cycle                                           *)
(***************************************************************************)
CycleReturns(from, how) == pc = from /\ pc' = "Idle" /\ outcome' = how

Ordered(b) ==
    /\ b.direction = "LONG" => (b.tp > b.entry /\ b.entry > b.sl)
    /\ b.direction = "SHORT" => (b.tp < b.entry /\ b.entry < b.sl)

(* C1: entry monitoring honours every fill: the cycle never leaves entry   *)
(* monitoring for Idle (treating the entry as not filled) while the entry  *)
(* order is FILLED at the venue, also when the fill happened after the     *)
(* last poll and before the timeout cancel.                                *)
C1_EntryFillHonored ==
    [][(pc = "MonitorEntry" /\ pc' = "Idle")
         => orders'[cycle.entryOrderId].status # "FILLED"]_vars

(* C2: when the SL placement fails after the TP was placed, a cancel is    *)
(* issued for the TP and the position is closed before the cycle ends: the *)
(* cycle never returns to Idle with an open position that has a live TP    *)
(* and no SL.                                                              *)
C2_NoTpWithoutSl ==
    [][(pc = "ClosePosition" /\ cycle.tpOrderId # 0 /\ pc' = "Idle")
         => /\ cycle.tpOrderId \in cancelsSent'
            /\ ~(/\ position' # 0
                 /\ orders'[cycle.tpOrderId].status = "NEW"
                 /\ {i \in DOMAIN orders' : /\ orders'[i].role = "sl"
                                            /\ orders'[i].status = "NEW"} = {})]_vars

(* C3: every bracket the bot submits is ordered around the realized entry  *)
(* price after tick rounding: tp > entry > sl for LONG, tp < entry < sl    *)
(* for SHORT.                                                              *)
C3_BracketOrdered == Ordered(lastBracket)

(* C4: the bot never places a new entry order while an entry order whose   *)
(* placement request timed out (outcome unknown) is live at the venue.     *)
C4_NoEntryWhileTimedOutLive ==
    [][(pc = "Idle" /\ Len(orders') > Len(orders))
         => \A i \in DOMAIN orders :
                ~(/\ orders[i].role = "entry"
                  /\ ~orders[i].acked
                  /\ orders[i].status = "NEW")]_vars

(* C5: at most one entry order, one TP order and one SL order of the       *)
(* TradingBot instance is open at the venue at any time.                   *)
C5_OneOrderPerRole ==
    \A role \in {"entry", "tp", "sl"} : Cardinality(OpenOrders(role)) <= 1

(* C8: when the TP poll observes CANCELED or EXPIRED the cycle records a   *)
(* LOSS, issues a cancel for the SL order and returns to Idle with         *)
(* consecutiveLosses incremented (or reset by the direction switch the     *)
(* increment causes).                                                      *)
C8_LossCancelsSl ==
    [][CycleReturns("MonitorTpSl", "LOSS")
         => /\ cycle.slOrderId \in cancelsSent'
            /\ totalLosses' = totalLosses + 1
            /\ \/ consecutiveLosses' = consecutiveLosses + 1
               \/ /\ consecutiveLosses + 1 >= directionSwitchLosses
                  /\ consecutiveLosses' = 0
            /\ state'.trades # <<>>
            /\ Head(state'.trades).result = "LOSS"]_vars

(* C9: when the TP poll observes FILLED the cycle records a WIN and issues *)
(* a cancel for the paired SL order before it returns to Idle.             *)
C9_WinCancelsSl ==
    [][CycleReturns("MonitorTpSl", "WIN")
         => /\ totalWins' = totalWins + 1
            /\ state'.trades # <<>>
            /\ Head(state'.trades).result = "WIN"
            /\ cycle.slOrderId \in cancelsSent']_vars

(* C10: when TP/SL monitoring reaches its ceiling the open trade is        *)
(* finalized with result TIMEOUT.                                          *)
C10_TimeoutFinalizesTrade ==
    [][CycleReturns("MonitorTpSl", "TIMEOUT")
         => /\ state'.currentTrade = NoTrade
            /\ state'.trades # <<>>
            /\ Head(state'.trades).result = "TIMEOUT"]_vars

(* C11: the direction flips exactly on a LOSS that brings                  *)
(* consecutiveLosses to directionSwitchLosses, and the counter is 0 after  *)
(* that step; the direction changes in no other step (not on a WIN, not    *)
(* below the threshold), and the counter never stands at the threshold, so *)
(* one crossing flips once.                                                *)
C11_FlipExactlyAtThreshold ==
    /\ [](consecutiveLosses < directionSwitchLosses)
    /\ [][/\ (direction' # direction) =>
               (/\ CycleReturns("MonitorTpSl", "LOSS")
                /\ consecutiveLosses + 1 = directionSwitchLosses
                /\ direction' = Opposite(direction)
                /\ consecutiveLosses' = 0
                /\ state'.direction = direction'
                /\ state'.consecutiveLosses = 0)
          /\ (/\ CycleReturns("MonitorTpSl", "LOSS")
              /\ consecutiveLosses + 1 = directionSwitchLosses) =>
               (direction' # direction)
          /\ CycleReturns("MonitorTpSl", "WIN") => (direction' = direction)]_vars

C11_Witness ==
    /\ outcome = "LOSS"
    /\ totalLosses = directionSwitchLosses
    /\ totalWins = 0
    /\ consecutiveLosses = 0
    /\ state.direction = direction

(* C12: a trade completed as WIN adds exactly 1 to totalWins and sets      *)
(* consecutiveLosses to 0; a trade completed as LOSS adds exactly 1 to     *)
(* totalLosses and to consecutiveLosses (which the direction switch then   *)
(* resets when the threshold is reached); the counters of TradingBot and   *)
(* of BotStateManager move alike.                                          *)
C12_CountersOnCompletion ==
    [][/\ CycleReturns("MonitorTpSl", "WIN") =>
            (/\ totalWins' = totalWins + 1
             /\ totalLosses' = totalLosses
             /\ consecutiveLosses' = 0
             /\ state'.totalWins = state.totalWins + 1
             /\ state'.totalLosses = state.totalLosses
             /\ state'.consecutiveLosses = 0)
       /\ CycleReturns("MonitorTpSl", "LOSS") =>
            (/\ totalLosses' = totalLosses + 1
             /\ totalWins' = totalWins
             /\ state'.totalLosses = state.totalLosses + 1
             /\ state'.totalWins = state.totalWins
             /\ LET losses == consecutiveLosses + 1
                     stLosses == state.consecutiveLosses + 1
                 IN  /\ consecutiveLosses' =
                            IF losses >= directionSwitchLosses THEN 0 ELSE losses
                     /\ state'.consecutiveLosses =
                            IF losses >= directionSwitchLosses THEN 0 ELSE stLosses)]_vars

C12_Witness ==
    /\ outcome = "WIN"
    /\ totalWins = 1
    /\ totalLosses = 1
    /\ consecutiveLosses = 0
    /\ state.totalWins = 1
    /\ state.totalLosses = 1
    /\ state.consecutiveLosses = 0

(* the orders the cycle that ends in this step has placed: order ids are   *)
(* given in sequence, so they are the ids from the entry order on          *)
CycleOrders ==
    IF cycle.entryOrderId # 0
    THEN cycle.entryOrderId..Len(orders')
    ELSE (Len(orders) + 1)..Len(orders')

(* C13: a stop request does not abort the cycle in progress: the run loop  *)
(* is left only at the top-of-cycle check, and the cycle that was in       *)
(* progress when stop() was called ends with none of the orders it placed  *)
(* still open at the venue.                                                *)
C13_StopLeavesNoOrder ==
    [][/\ (pc' = "Stopped") => (pc = "Idle")
       /\ (~isRunning /\ pc # "Idle" /\ pc' = "Idle") =>
            (\A i \in CycleOrders : orders'[i].status # "NEW")]_vars

(* C16: when an exception aborts a trade cycle (the entry order or the     *)
(* bracket could not be placed) the loop is back at the top of a cycle     *)
(* with clean locals, and no order placed by the aborted cycle is open and *)
(* no position is open at the venue.                                       *)
C16_AbortedCycleLeavesNothing ==
    [][(pc' = "Idle" /\ outcome' \in {"ENTRY_NOT_PLACED", "BRACKET_FAILED"}
          /\ <<pc, cycles>> # <<pc', cycles'>>) =>
            (/\ cycle' = EmptyCycle
             /\ \A i \in CycleOrders : orders'[i].status # "NEW"
             /\ position' = 0)]_vars

(* C14: after stop() the run loop starts no new cycle, a monitoring loop   *)
(* in progress stays within its ceiling, and run() eventually returns with *)
(* isRunning false in the bot and in the state manager.                    *)
C14_StopTerminates ==
    /\ [][~isRunning => cycles' = cycles]_vars
    /\ [](pc = "MonitorEntry" => polls <= MaxEntryPolls)
    /\ [](pc = "MonitorTpSl" => polls <= MaxTpPolls)
    /\ [](pc = "Stopped" => (~isRunning /\ ~state.isRunning))
    /\ (~isRunning) ~> (pc = "Stopped")

C14_Witness ==
    /\ ~isRunning
    /\ ~wsConnected
    /\ pc = "MonitorTpSl"
    /\ polls = MaxTpPolls
    /\ cycles < MaxCycles

(* C15: at most one strategy instance is inside its run loop at any time,  *)
(* whatever the order of the startBot and stopBot calls.                   *)
C15_OneInstanceInRunLoop == InstancesInRunLoop <= 1

(***************************************************************************)
(* Properties of the micro-grid safety checks                              *)
(***************************************************************************)
(* C17: once the circuit breaker has tripped, no tick of the same trading  *)
(* day places a bracket or a reduction order: neither the tick on which    *)
(* the decision is true nor any later tick before the daily reset, also    *)
(* after the position was closed on the trip.                              *)
C17_TrippedPlacesNothing ==
    (gridCall.op = "tick" /\ (gridCall.tripped \/ gridCall.decision)) =>
        gridCall.placed = {}

(* C18: an inventory-opening GTX order is placed only while the position   *)
(* held at the venue is below quantity * maxPositionMultiplier, on every   *)
(* placement path, and the position never exceeds that cap.                *)
C18_OpeningOnlyBelowCap ==
    /\ ~gridCall.placedAtCap
    /\ Abs(position) <= maxPositionSize

(* C19: a tick that observes the price outside the band leaves no order    *)
(* of the strategy resting and no position open, and places nothing.       *)
C19_OutOfBandFlat ==
    (gridCall.op = "tick" /\ gridCall.observed = "out") =>
        /\ gridCall.placed = {}
        /\ position = 0
        /\ \A i \in DOMAIN orders : orders[i].status # "NEW"

(* the loss of the day as a rate of the balance estimate, rounded down *)
LossRate(g) == Abs(g.dailyPnL) \div estimatedBalance(g)

(* C20: the circuit-breaker decision is true exactly when the day's P&L is *)
(* negative and the loss as a fraction of the balance estimate reaches the *)
(* loss limit, or the consecutive losses reach the maximum; for a P&L of   *)
(* -60 on a balance estimate of 1000 and fewer than the maximum losses it  *)
(* is true with the limit 0.05 and false with the limit 0.10.              *)
C20_CircuitBreakerDecision ==
    gridCall.op = "checkCircuitBreaker" =>
        /\ gridCall.decision =
             ((grid.dailyPnL < 0 /\ LossRate(grid) >= grid.dailyLossLimit)
                \/ grid.consecutiveLosses >= maxConsecutiveLosses)
        /\ (/\ grid.dailyPnL = -60 * RateScale
            /\ estimatedBalance(grid) = 1000
            /\ grid.consecutiveLosses < maxConsecutiveLosses) =>
              (/\ grid.dailyLossLimit = 500 => gridCall.decision
               /\ grid.dailyLossLimit = 1000 => ~gridCall.decision)

C20_Witness ==
    /\ gridCall.op = "checkCircuitBreaker"
    /\ grid.dailyPnL = -50 * RateScale
    /\ grid.dailyLossLimit = 500
    /\ grid.consecutiveLosses = 0
    /\ gridCall.decision
    /\ grid.isCircuitBroken

(***************************************************************************)
(* The mirror alone, under any sequence of calls                           *)
(***************************************************************************)
InitBook ==
    /\ bookState = EmptyBook
    /\ bookCall = [op |-> None, u |-> 0, tick |-> 0]
    /\ strategy = "orderbook"
    /\ BotConstructed("LONG")
    /\ GridNotStarted
    /\ calc = NoCalc
    /\ placing = NoPlacing
    /\ socket = NoSocket

UpdateAny == Update(OrderbookUpdates)

NextBook ==
    \/ UpdateAny
    \/ InitFromSnapshot

SpecBook == InitBook /\ [][NextBook]_vars

(* The mirror fed by the venue: a depth snapshot and every message of the  *)
(* partial-depth stream hold the top levels of an uncrossed book           *)
ValidBook(bids, asks) ==
    (Len(bids) > 0 /\ Len(asks) > 0) =>
        parseFloat(bids[1][1]) < parseFloat(asks[1][1])

ValidUpdates == {data \in OrderbookUpdates : ValidBook(data.b, data.a)}

UpdateValid == Update(ValidUpdates)

InitFromValidSnapshot ==
    /\ InitFromSnapshot
    /\ ValidBook(bookState'.bids, bookState'.asks)

NextValidBook ==
    \/ UpdateValid
    \/ InitFromValidSnapshot

SpecValidBook == InitBook /\ [][NextValidBook]_vars

(***************************************************************************)
(* Properties of the mirror                                                *)
(***************************************************************************)
IsBookCall(op) == bookCall'.tick # bookCall.tick /\ bookCall'.op = op

(* C6: an update whose u is not greater than the current lastUpdateId      *)
(* changes nothing: bids, asks, lastUpdateId and timestamp stay, and so do *)
(* the best bid and the best ask.                                          *)
C6_StaleUpdateIsNoOp ==
    [][(IsBookCall("update") /\ bookCall'.u <= bookState.lastUpdateId)
         => /\ bookState' = bookState
            /\ getBestBid(bookState') = getBestBid(bookState)
            /\ getBestAsk(bookState') = getBestAsk(bookState)]_vars

C6_Witness ==
    /\ bookCall.op = "update"
    /\ bookCall.u < bookState.lastUpdateId
    /\ hasData(bookState)

(* C7 as stated: over any sequence of initFromSnapshot and update calls    *)
(* lastUpdateId never decreases.                                           *)
C7_LastUpdateIdNeverDecreases ==
    [][bookState'.lastUpdateId >= bookState.lastUpdateId]_vars

(* C7 amended: an update call never decreases lastUpdateId, and an update  *)
(* that changes the mirror has u strictly greater than the lastUpdateId it *)
(* replaces; initFromSnapshot records the snapshot's id whatever it is.    *)
C7_UpdateMonotone ==
    [][/\ IsBookCall("update") =>
            /\ bookState'.lastUpdateId >= bookState.lastUpdateId
            /\ (bookState' # bookState =>
                    /\ bookCall'.u > bookState.lastUpdateId
                    /\ bookState'.lastUpdateId = bookCall'.u)
       /\ IsBookCall("initFromSnapshot") =>
            bookState'.lastUpdateId = bookCall'.u]_vars

C7_Witness ==
    /\ bookCall.op = "update"
    /\ bookCall.u = bookState.lastUpdateId
    /\ bookState.lastUpdateId > 1
    /\ hasData(bookState)

(***************************************************************************)
(* Numbers of the runtime: IEEE 754 binary64, round to nearest, ties to    *)
(* even.  A natural number of any size is a sequence of limbs in base      *)
(* LimbBase, least significant first, without leading zero limbs; a        *)
(* non-negative double is m * 2^e with 2^52 <= m < 2^53, or zero.          *)
(***************************************************************************)
LimbBits == 15
LimbBase == 2 ^ LimbBits
MantissaBits == 53

BigOne == <<1>>

RECURSIVE BigNorm(_)
BigNorm(a) ==
    IF a = <<>> THEN <<>>
    ELSE IF a[Len(a)] = 0 THEN BigNorm(SubSeq(a, 1, Len(a) - 1)) ELSE a

RECURSIVE BigFromNat(_)
BigFromNat(n) ==
    IF n = 0 THEN <<>> ELSE <<n % LimbBase>> \o BigFromNat(n \div LimbBase)

RECURSIVE BigToNat(_)
BigToNat(a) ==
    IF a = <<>> THEN 0 ELSE Head(a) + LimbBase * BigToNat(Tail(a))

Limb(a, i) == IF i <= Len(a) THEN a[i] ELSE 0

RECURSIVE BigAddFrom(_, _, _, _)
BigAddFrom(a, b, i, carry) ==
    IF i > Len(a) /\ i > Len(b)
    THEN IF carry = 0 THEN <<>> ELSE <<carry>>
    ELSE LET s == Limb(a, i) + Limb(b, i) + carry
         IN  <<s % LimbBase>> \o BigAddFrom(a, b, i + 1, s \div LimbBase)

BigAdd(a, b) == BigAddFrom(a, b, 1, 0)

(* a - b for a >= b *)
RECURSIVE BigSubFrom(_, _, _, _)
BigSubFrom(a, b, i, borrow) ==
    IF i > Len(a) THEN <<>>
    ELSE LET s == Limb(a, i) - Limb(b, i) - borrow
         IN  IF s < 0
             THEN <<s + LimbBase>> \o BigSubFrom(a, b, i + 1, 1)
             ELSE <<s>> \o BigSubFrom(a, b, i + 1, 0)

BigSub(a, b) == BigNorm(BigSubFrom(a, b, 1, 0))

RECURSIVE BigCmpFrom(_, _, _)
BigCmpFrom(a, b, i) ==
    IF i = 0 THEN 0
    ELSE IF a[i] > b[i] THEN 1
    ELSE IF a[i] < b[i] THEN -1
    ELSE BigCmpFrom(a, b, i - 1)

(* -1, 0 or 1 as a is below, equal to or above b *)
BigCmp(a, b) ==
    IF Len(a) > Len(b) THEN 1
    ELSE IF Len(a) < Len(b) THEN -1
    ELSE BigCmpFrom(a, b, Len(a))

RECURSIVE BigMulSmallFrom(_, _, _, _)
BigMulSmallFrom(a, n, i, carry) ==
    IF i > Len(a)
    THEN IF carry = 0 THEN <<>> ELSE <<carry>>
    ELSE LET p == a[i] * n + carry
         IN  <<p % LimbBase>> \o BigMulSmallFrom(a, n, i + 1, p \div LimbBase)

(* a * n for n < LimbBase *)
BigMulSmall(a, n) == IF n = 0 THEN <<>> ELSE BigMulSmallFrom(a, n, 1, 0)

(* a * LimbBase^k *)
RECURSIVE BigShiftLimbs(_, _)
BigShiftLimbs(a, k) ==
    IF a = <<>> \/ k = 0 THEN a ELSE <<0>> \o BigShiftLimbs(a, k - 1)

RECURSIVE BigMul(_, _)
BigMul(a, b) ==
    IF a = <<>> \/ b = <<>> THEN <<>>
    ELSE BigAdd(BigMulSmall(a, Head(b)),
                BigShiftLimbs(BigMul(a, Tail(b)), 1))

(* a * 2^k *)
BigShl(a, k) ==
    BigShiftLimbs(BigMulSmall(a, 2 ^ (k % LimbBits)), k \div LimbBits)

(* the limbs of a from limb i on, moved down by r bits *)
RECURSIVE BigShrFrom(_, _, _)
BigShrFrom(a, i, r) ==
    IF i > Len(a) THEN <<>>
    ELSE <<(a[i] \div 2 ^ r) + (Limb(a, i + 1) % 2 ^ r) * 2 ^ (LimbBits - r)>>
           \o BigShrFrom(a, i + 1, r)

(* the integer part of a / 2^k *)
BigShr(a, k) == BigNorm(BigShrFrom(a, k \div LimbBits + 1, k % LimbBits))

RECURSIVE BitLenNat(_)
BitLenNat(n) == IF n = 0 THEN 0 ELSE 1 + BitLenNat(n \div 2)

BigBitLen(a) ==
    IF a = <<>> THEN 0 ELSE LimbBits * (Len(a) - 1) + BitLenNat(a[Len(a)])

(* bit i of a, bit 0 the least significant *)
BigBit(a, i) == (Limb(a, i \div LimbBits + 1) \div 2 ^ (i % LimbBits)) % 2

BigIsOdd(a) == a # <<>> /\ a[1] % 2 = 1

(* long division, one bit of the dividend per step from the most           *)
(* significant one; s holds the quotient and the remainder so far          *)
BigDivStep(a, d, s, i) ==
    CHOOSE res \in
      {IF BigCmp(r2, d) >= 0
       THEN [q |-> BigAdd(BigAdd(s.q, s.q), BigOne), r |-> BigSub(r2, d)]
       ELSE [q |-> BigAdd(s.q, s.q), r |-> r2]
         : r2 \in {BigAdd(BigAdd(s.r, s.r), BigFromNat(BigBit(a, i)))}} : TRUE

(* the steps for the bits hi down to lo: the upper half of them, then the  *)
(* lower half on the state the upper half has left                         *)
RECURSIVE BigDivBits(_, _, _, _, _)
BigDivBits(a, d, s, hi, lo) ==
    IF hi = lo THEN BigDivStep(a, d, s, hi)
    ELSE LET mid == (hi + lo + 1) \div 2
         IN  CHOOSE res \in {BigDivBits(a, d, upper, mid - 1, lo) :
                                upper \in {BigDivBits(a, d, s, hi, mid)}} : TRUE

(* quotient and remainder of a / d, d > 0 *)
BigDivMod(a, d) ==
    IF a = <<>> THEN [q |-> <<>>, r |-> <<>>]
    ELSE BigDivBits(a, d, [q |-> <<>>, r |-> <<>>], BigBitLen(a) - 1, 0)

DZero == [m |-> <<>>, e |-> 0]

(* An operator of this section binds each operand to its value before it   *)
(* uses it (x \in {operand}), so that an operand which is itself the       *)
(* result of an operation is computed once.                                *)

(* the quotient qr.q, of two or three bits more than the mantissa holds,   *)
(* rounded to the mantissa: these bits and the remainder qr.r decide, a    *)
(* tie going to the even mantissa; e is the exponent of the quotient       *)
RoundQuotient(qr, e) ==
    LET s == BigBitLen(qr.q) - MantissaBits
        rest == qr.q[1] % 2 ^ s
        half == 2 ^ (s - 1)
    IN  CHOOSE res \in
          {LET up == \/ rest > half
                     \/ rest = half /\ (qr.r # <<>> \/ BigIsOdd(m0))
           IN  IF up /\ BigBitLen(BigAdd(m0, BigOne)) > MantissaBits
               THEN [m |-> BigShr(BigAdd(m0, BigOne), 1), e |-> e + s + 1]
               ELSE [m |-> IF up THEN BigAdd(m0, BigOne) ELSE m0, e |-> e + s]
             : m0 \in {BigShr(qr.q, s)}} : TRUE

(* the double nearest to (num / den) * 2^e *)
ToDouble(num, den, e) ==
    CHOOSE res \in
      {IF n = <<>> THEN DZero
       ELSE LET k == MantissaBits + 2 + BigBitLen(d) - BigBitLen(n)
            IN  CHOOSE r \in
                  {RoundQuotient(qr, e - k) :
                     qr \in {BigDivMod(IF k >= 0 THEN BigShl(n, k) ELSE n,
                                       IF k >= 0 THEN d ELSE BigShl(d, -k))}} : TRUE
         : n \in {num}, d \in {den}} : TRUE

(* a decimal literal: n / 10^digits *)
DFromDec(n, digits) == ToDouble(BigFromNat(n), BigFromNat(10 ^ digits), 0)

DFromNat(n) == DFromDec(n, 0)

DMul(x, y) ==
    CHOOSE res \in {ToDouble(BigMul(a.m, b.m), BigOne, a.e + b.e) :
                      a \in {x}, b \in {y}} : TRUE

DDiv(x, y) ==
    CHOOSE res \in {ToDouble(a.m, b.m, a.e - b.e) : a \in {x}, b \in {y}} : TRUE

(* the two mantissas brought to the smaller exponent *)
Aligned(x, y) ==
    CHOOSE res \in
      {LET e == IF a.m = <<>> THEN b.e
                ELSE IF b.m = <<>> THEN a.e
                ELSE Min(a.e, b.e)
       IN  [x |-> IF a.m = <<>> THEN <<>> ELSE BigShl(a.m, a.e - e),
            y |-> IF b.m = <<>> THEN <<>> ELSE BigShl(b.m, b.e - e),
            e |-> e]
         : a \in {x}, b \in {y}} : TRUE

DAdd(x, y) ==
    CHOOSE res \in {ToDouble(BigAdd(a.x, a.y), BigOne, a.e) :
                      a \in {Aligned(x, y)}} : TRUE

(* x - y for x >= y *)
DSub(x, y) ==
    CHOOSE res \in {ToDouble(BigSub(a.x, a.y), BigOne, a.e) :
                      a \in {Aligned(x, y)}} : TRUE

(* -1, 0 or 1 as x is below, equal to or above y *)
DCmp(x, y) == CHOOSE res \in {BigCmp(a.x, a.y) : a \in {Aligned(x, y)}} : TRUE

(* the integer part of x as a natural number, and whether x has a          *)
(* fraction below, equal to or above one half (-1, 0, 1)                   *)
IntegerPart(x) ==
    IF x.e >= 0 THEN BigShl(x.m, x.e) ELSE BigShr(x.m, -x.e)

FractionVsHalf(x) ==
    IF x.e >= 0 THEN -1
    ELSE LET frac == BigSub(x.m, BigShl(IntegerPart(x), -x.e))
         IN  BigCmp(BigAdd(frac, frac), BigShl(BigOne, -x.e))

(* Math.floor and Math.round of a non-negative number *)
MathFloor(x) ==
    CHOOSE res \in {ToDouble(IntegerPart(a), BigOne, 0) : a \in {x}} : TRUE

MathRound(x) ==
    CHOOSE res \in
      {IF FractionVsHalf(a) >= 0
       THEN ToDouble(BigAdd(IntegerPart(a), BigOne), BigOne, 0)
       ELSE ToDouble(IntegerPart(a), BigOne, 0)
         : a \in {x}} : TRUE

(***************************************************************************)
(* Precision helpers of the order service.  A decimal string such as a     *)
(* step size is the sequence of its characters.                            *)
(***************************************************************************)
DigitOf(c) ==
    CASE c = "0" -> 0 [] c = "1" -> 1 [] c = "2" -> 2 [] c = "3" -> 3
      [] c = "4" -> 4 [] c = "5" -> 5 [] c = "6" -> 6 [] c = "7" -> 7
      [] c = "8" -> 8 [] c = "9" -> 9

(* s.includes('.') *)
IncludesDot(s) == \E i \in DOMAIN s : s[i] = "."

DotIndex(s) == CHOOSE i \in DOMAIN s : s[i] = "." /\ \A j \in 1..(i - 1) : s[j] # "."

(* s.split('.')[0] and s.split('.')[1] *)
BeforeDot(s) == IF IncludesDot(s) THEN SubSeq(s, 1, DotIndex(s) - 1) ELSE s
AfterDot(s) == SubSeq(s, DotIndex(s) + 1, Len(s))

(* replace(/0+$/, '') *)
RECURSIVE StripTrailingZeros(_)
StripTrailingZeros(s) ==
    IF s # <<>> /\ s[Len(s)] = "0"
    THEN StripTrailingZeros(SubSeq(s, 1, Len(s) - 1))
    ELSE s

RECURSIVE DigitsValue(_)
DigitsValue(s) ==
    IF s = <<>> THEN 0
    ELSE 10 * DigitsValue(SubSeq(s, 1, Len(s) - 1)) + DigitOf(s[Len(s)])

(* the decimal number a string denotes: n / 10^digits *)
DecimalOf(s) ==
    IF IncludesDot(s)
    THEN [n |-> DigitsValue(BeforeDot(s) \o AfterDot(s)),
          digits |-> Len(AfterDot(s))]
    ELSE [n |-> DigitsValue(s), digits |-> 0]

(* the number a decimal denotes in the runtime *)
NumberOf(dec) == DFromDec(dec.n, dec.digits)

(* parseFloat of a decimal string *)
parseFloatDecimal(s) == NumberOf(DecimalOf(s))

(* the precision implied by a step or tick size *)
DecimalPlaces(s) ==
    IF IncludesDot(s) THEN Len(StripTrailingZeros(AfterDot(s))) ELSE 0

roundToPrecision(value, precision) ==
    CHOOSE res \in {DDiv(MathRound(DMul(value, factor)), factor) :
                      factor \in {DFromNat(10 ^ precision)}} : TRUE

roundToStepSize(qty, stepSize) ==
    CHOOSE res \in
      {IF step = DZero THEN qty
       ELSE LET precision == DecimalPlaces(stepSize)
                rounded == DMul(MathFloor(DDiv(qty, step)), step)
            IN  roundToPrecision(rounded, precision)
         : step \in {parseFloatDecimal(stepSize)}} : TRUE

roundToTickSize(price, tickSizeText) ==
    CHOOSE res \in
      {IF tick = DZero THEN price
       ELSE LET precision == DecimalPlaces(tickSizeText)
                rounded == DMul(MathRound(DDiv(price, tick)), tick)
            IN  roundToPrecision(rounded, precision)
         : tick \in {parseFloatDecimal(tickSizeText)}} : TRUE

(***************************************************************************)
(* The helper functions alone: one call on any arguments                   *)
(***************************************************************************)
Directions == {"LONG", "SHORT"}

CalcCall(fn, args) == [fn |-> fn, done |-> FALSE, args |-> args, result |-> None]

CalcReturn(result) == [calc EXCEPT !.done = TRUE, !.result = result]

(* prices around an entry price of 100 *)
BracketPrices == {99 * PriceScale, 100 * PriceScale, 101 * PriceScale}

ValidateInputs ==
    {CalcCall("validateTPSLPrices", a) :
        a \in [direction : Directions, entryPrice : {100 * PriceScale},
               tpPrice : BracketPrices, slPrice : BracketPrices]}

(* the books and the levels the selectors are asked for: level 0 and a     *)
(* level past the deepest side are among them                              *)
MaxLevel == 3
Books == {[EmptyBook EXCEPT !.bids = b, !.asks = a] : b \in BidSides, a \in AskSides}
SelectorArgs == [book : Books, direction : Directions, level : 0..MaxLevel]

SelectorInputs ==
    {CalcCall(fn, a) :
        fn \in {"getEntryPrice", "getTakeProfitPrice", "getStopLossPrice"},
        a \in SelectorArgs}

(* the decimal literals n / 10^digits a quantity or a price is written as, *)
(* and the step and tick sizes of the exchange filters                     *)
MaxDecimal == 15
Decimals == [n : 0..MaxDecimal, digits : 1..2]
StepSizes ==
    {<<"1">>, <<"0", ".", "1">>, <<"0", ".", "5">>, <<"0", ".", "0", "1">>,
     <<"0", ".", "1", "0">>, <<"0">>}

RoundInputs ==
    {CalcCall("roundToStepSize", a) : a \in [quantity : Decimals, stepSize : StepSizes]}
        \cup {CalcCall("roundToTickSize", a) : a \in [price : Decimals, tickSize : StepSizes]}

(* the risk_reward computation of placeTpSlOrders on the numbers of the    *)
(* runtime; the distances are part of the result                           *)
RiskRewardNumbers_mut(dir, entryPrice, slPercent, ratio) ==
    LET slDistance == DMul(entryPrice, DDiv(slPercent, DFromNat(100)))
        tpDistance == slDistance
    IN  IF dir = "LONG"
        THEN [tpPrice |-> DAdd(entryPrice, tpDistance),
              slPrice |-> DSub(entryPrice, slDistance)]
        ELSE [tpPrice |-> DSub(entryPrice, tpDistance),
              slPrice |-> DAdd(entryPrice, slDistance)]

RiskRewardNumbers(dir, entryPrice, slPercent, ratio) ==
    LET slDistance == DMul(entryPrice, DDiv(slPercent, DFromNat(100)))
        tpDistance == DMul(slDistance, ratio)
    IN  IF dir = "LONG"
        THEN [tpPrice |-> DAdd(entryPrice, tpDistance),
              slPrice |-> DSub(entryPrice, slDistance)]
        ELSE [tpPrice |-> DSub(entryPrice, tpDistance),
              slPrice |-> DAdd(entryPrice, slDistance)]

(* fill prices 50000, 100, 99.9 and 123.45; stop distances of 0.1, 0.3,    *)
(* 0.5 and 1 percent; ratios 1, 1.5, 2 and 3                                *)
EntryPrices ==
    {[n |-> 50000, digits |-> 0], [n |-> 100, digits |-> 0],
     [n |-> 999, digits |-> 1], [n |-> 12345, digits |-> 2]}
SlDistancePercents ==
    {[n |-> 1, digits |-> 1], [n |-> 3, digits |-> 1], [n |-> 5, digits |-> 1],
     [n |-> 1, digits |-> 0]}
RiskRewardRatios ==
    {[n |-> 1, digits |-> 0], [n |-> 15, digits |-> 1], [n |-> 2, digits |-> 0],
     [n |-> 3, digits |-> 0]}

RiskRewardInputs ==
    {CalcCall("riskReward", a) :
        a \in [direction : Directions, entryPrice : EntryPrices,
               slDistancePercent : SlDistancePercents,
               riskRewardRatio : RiskRewardRatios]}

(* the dynamic spread on a configuration and a price history: rates in    *)
(* 1 / RateScale as above, prices in 1 / PriceScale of a price unit        *)
RECURSIVE SumOf(_)
SumOf(s) == IF s = <<>> THEN 0 ELSE Head(s) + SumOf(Tail(s))

(* the largest r in lo..hi with r * r <= n *)
RECURSIVE SqrtBetween(_, _, _)
SqrtBetween(n, lo, hi) ==
    IF lo = hi THEN lo
    ELSE LET mid == (lo + hi + 1) \div 2
         IN  IF mid * mid <= n THEN SqrtBetween(n, mid, hi)
             ELSE SqrtBetween(n, lo, mid - 1)

MathSqrt(n) == SqrtBetween(n, 0, Min(n, 46340))

(* calculateVolatility on the prices of the history: whether the result    *)
(* is 0, and 10 times the result in 1 / RateScale, rounded down.  With n   *)
(* prices of sum s, (stdDev / mean)^2 = (n * sum of squares - s^2) / s^2,  *)
(* and the numerator is the same for the prices less the smallest of them  *)
priceVolatility(prices) ==
    LET n == Len(prices)
        s == SumOf(prices)
        least == CHOOSE x \in {prices[i] : i \in 1..n} :
                    \A i \in 1..n : x <= prices[i]
        moved == [i \in 1..n |-> prices[i] - least]
        v == n * SumOf([i \in 1..n |-> moved[i] * moved[i]])
                 - SumOf(moved) * SumOf(moved)
    IN  IF n < 2 \/ s = 0 \/ v = 0 THEN [isZero |-> TRUE, times10 |-> 0]
        ELSE [isZero |-> FALSE,
              times10 |-> (10 * RateScale * MathSqrt(v * 10000)) \div (s * 100)]

(* updateDynamicSpread on a strategy built from a configuration *)
dynamicSpread_mut(spreadGap, minSpread, maxSpread, priceHistory, currentPrice) ==
    LET volatility == priceVolatility(Append(priceHistory, currentPrice))
    IN  IF volatility.isZero THEN spreadGap
        ELSE Max(minSpread, spreadGap + volatility.times10)

dynamicSpread(spreadGap, minSpread, maxSpread, priceHistory, currentPrice) ==
    LET volatility == priceVolatility(Append(priceHistory, currentPrice))
    IN  IF volatility.isZero THEN spreadGap
        ELSE Max(minSpread, Min(maxSpread, spreadGap + volatility.times10))

(* configurations the schema accepts (each of the three rates is any       *)
(* positive number), the default among them, and the price histories of    *)
(* up to MaxHistory observations                                           *)
MaxHistory == 2
SpreadGaps == {3, spreadGapPercent, 12, 50}
MinSpreads == {minSpreadPercent, 10}
MaxSpreads == {20, maxSpreadPercent}
ObservedPrices == {100 * PriceScale, 100 * PriceScale + 1, 100 * PriceScale + 3}
PriceHistories ==
    UNION {[1..n -> ObservedPrices] : n \in 0..MaxHistory}

SpreadInputs ==
    {CalcCall("updateDynamicSpread", a) :
        a \in [spreadGapPercent : SpreadGaps, minSpreadPercent : MinSpreads,
               maxSpreadPercent : MaxSpreads, priceHistory : PriceHistories,
               currentPrice : ObservedPrices]}

CalcInputs ==
    ValidateInputs \cup SelectorInputs \cup RoundInputs \cup RiskRewardInputs
        \cup SpreadInputs

InitCalc ==
    /\ bookState = EmptyBook
    /\ bookCall = [op |-> None, u |-> 0, tick |-> 0]
    /\ strategy = "orderbook"
    /\ BotConstructed("LONG")
    /\ GridNotStarted
    /\ calc \in CalcInputs
    /\ placing = NoPlacing
    /\ socket = NoSocket

CalcUnchanged ==
    UNCHANGED <<bookVars, wsConnected, venueVars, botVars, state, histVars,
                strategy, manager, grid, market, gridCall, placing, socket>>

ValidateTPSLPrices ==
    /\ calc.fn = "validateTPSLPrices" /\ ~calc.done
    /\ calc' = CalcReturn(validateTPSLPrices(calc.args.direction,
                    calc.args.entryPrice, calc.args.tpPrice, calc.args.slPrice))
    /\ CalcUnchanged

GetEntryPrice ==
    /\ calc.fn = "getEntryPrice" /\ ~calc.done
    /\ calc' = CalcReturn(getEntryPrice(calc.args.book, calc.args.direction,
                                        calc.args.level))
    /\ CalcUnchanged

GetTakeProfitPrice ==
    /\ calc.fn = "getTakeProfitPrice" /\ ~calc.done
    /\ calc' = CalcReturn(getTakeProfitPrice(calc.args.book, calc.args.direction,
                                             calc.args.level))
    /\ CalcUnchanged

GetStopLossPrice ==
    /\ calc.fn = "getStopLossPrice" /\ ~calc.done
    /\ calc' = CalcReturn(getStopLossPrice(calc.args.book, calc.args.direction,
                                           calc.args.level))
    /\ CalcUnchanged

RoundToStepSize ==
    /\ calc.fn = "roundToStepSize" /\ ~calc.done
    /\ calc' = CalcReturn(roundToStepSize(NumberOf(calc.args.quantity),
                                          calc.args.stepSize))
    /\ CalcUnchanged

RoundToTickSize ==
    /\ calc.fn = "roundToTickSize" /\ ~calc.done
    /\ calc' = CalcReturn(roundToTickSize(NumberOf(calc.args.price),
                                          calc.args.tickSize))
    /\ CalcUnchanged

(* the risk_reward branch of placeTpSlOrders *)
RiskRewardBracket ==
    /\ calc.fn = "riskReward" /\ ~calc.done
    /\ calc' = CalcReturn(RiskRewardNumbers(calc.args.direction,
                    NumberOf(calc.args.entryPrice),
                    NumberOf(calc.args.slDistancePercent),
                    NumberOf(calc.args.riskRewardRatio)))
    /\ CalcUnchanged

(* updateDynamicSpread: the spread it leaves in currentSpread *)
UpdateDynamicSpread ==
    /\ calc.fn = "updateDynamicSpread" /\ ~calc.done
    /\ calc' = CalcReturn(dynamicSpread(calc.args.spreadGapPercent,
                    calc.args.minSpreadPercent, calc.args.maxSpreadPercent,
                    calc.args.priceHistory, calc.args.currentPrice))
    /\ CalcUnchanged

NextCalc ==
    \/ UpdateDynamicSpread
    \/ RiskRewardBracket
    \/ ValidateTPSLPrices
    \/ GetEntryPrice
    \/ GetTakeProfitPrice
    \/ GetStopLossPrice
    \/ RoundToStepSize
    \/ RoundToTickSize

SpecCalc == InitCalc /\ [][NextCalc]_vars

(***************************************************************************)
(* Properties of the helper functions                                      *)
(***************************************************************************)
Returned(fn) == calc.fn = fn /\ calc.done

Rejected(r) == ~r.tpValid \/ ~r.slValid

(* C21: validateTPSLPrices reports tpValid or slValid false exactly when,  *)
(* for LONG, tp <= entry or sl >= entry and, for SHORT, tp >= entry or     *)
(* sl <= entry; a price equal to the entry price is always rejected.       *)
C21_ValidateRejectsExactly ==
    Returned("validateTPSLPrices") =>
        LET a == calc.args
            r == calc.result
        IN  /\ a.direction = "LONG" =>
                 (Rejected(r) <=> (a.tpPrice <= a.entryPrice
                                     \/ a.slPrice >= a.entryPrice))
            /\ a.direction = "SHORT" =>
                 (Rejected(r) <=> (a.tpPrice >= a.entryPrice
                                     \/ a.slPrice <= a.entryPrice))
            /\ (a.tpPrice = a.entryPrice \/ a.slPrice = a.entryPrice) =>
                 Rejected(r)

C21_Witness ==
    /\ Returned("validateTPSLPrices")
    /\ calc.args.direction = "LONG"
    /\ calc.args.tpPrice = calc.args.entryPrice
    /\ calc.args.slPrice < calc.args.entryPrice
    /\ ~calc.result.tpValid /\ calc.result.slValid

(* the price of the n-th level of one side, levels counted from 1 *)
NthPrice(side, n) ==
    IF n >= 1 /\ n <= Len(side) THEN parseFloat(side[n][1]) ELSE Null

(* C22: for LONG the entry and the stop-loss selectors return the n-th bid *)
(* price and the take-profit selector the n-th ask price, for SHORT the    *)
(* sides are swapped; levels count from 1 and the result is null when n is *)
(* below 1 or beyond the depth of that side.                               *)
C22_SelectorsPickNthLevel ==
    (calc.done /\ calc.fn \in {"getEntryPrice", "getTakeProfitPrice",
                               "getStopLossPrice"}) =>
        LET a == calc.args
            bid == NthPrice(a.book.bids, a.level)
            ask == NthPrice(a.book.asks, a.level)
            long == a.direction = "LONG"
            side == IF (calc.fn = "getTakeProfitPrice") = long
                    THEN a.book.asks ELSE a.book.bids
        IN  /\ calc.fn = "getEntryPrice" =>
                 calc.result = IF long THEN bid ELSE ask
            /\ calc.fn = "getStopLossPrice" =>
                 calc.result = IF long THEN bid ELSE ask
            /\ calc.fn = "getTakeProfitPrice" =>
                 calc.result = IF long THEN ask ELSE bid
            /\ (a.level < 1 \/ a.level > Len(side)) <=> calc.result = Null

C22_Witness ==
    /\ Returned("getTakeProfitPrice")
    /\ calc.args.direction = "LONG"
    /\ calc.args.level = 2
    /\ Len(calc.args.book.asks) = 2 /\ Len(calc.args.book.bids) = 1
    /\ calc.result = parseFloat(calc.args.book.asks[2][1])
    /\ getStopLossPrice(calc.args.book, "LONG", 2) = Null

MultipleOf(k, stepSize) ==
    LET st == DecimalOf(stepSize) IN DFromDec(k * st.n, st.digits)

(* how many whole steps fit into the decimal q, and the number of steps    *)
(* nearest to q with an exact half counted up                              *)
StepsBelow(q, stepSize) ==
    LET st == DecimalOf(stepSize)
    IN  (q.n * 10 ^ st.digits) \div (st.n * 10 ^ q.digits)

StepsNearest(q, stepSize) ==
    LET st == DecimalOf(stepSize)
    IN  (2 * q.n * 10 ^ st.digits + st.n * 10 ^ q.digits)
            \div (2 * st.n * 10 ^ q.digits)

PositiveStep(stepSize) == DecimalOf(stepSize).n > 0

(* C24: for a non-negative quantity and a positive step roundToStepSize    *)
(* returns a value that is not above the quantity and is the largest       *)
(* multiple of the step that is not above the quantity.                    *)
C24_StepFloor ==
    (Returned("roundToStepSize") /\ PositiveStep(calc.args.stepSize)) =>
        /\ DCmp(calc.result, NumberOf(calc.args.quantity)) <= 0
        /\ calc.result = MultipleOf(StepsBelow(calc.args.quantity,
                                               calc.args.stepSize),
                                    calc.args.stepSize)

(* C25: for a positive tick roundToTickSize returns the multiple of the    *)
(* tick nearest to the price, a price half way between two multiples       *)
(* going to the upper one.                                                 *)
C25_TickNearest ==
    (Returned("roundToTickSize") /\ PositiveStep(calc.args.tickSize)) =>
        calc.result = MultipleOf(StepsNearest(calc.args.price,
                                              calc.args.tickSize),
                                 calc.args.tickSize)

(* x is the number num / den up to the rounding of the arithmetic: the     *)
(* two differ by less than 2^-50 of the value                              *)
NearlyEqual(x, num, den) ==
    \E a \in {Aligned(x, ToDouble(BigFromNat(num), BigFromNat(den), 0))} :
        LET diff == IF BigCmp(a.x, a.y) >= 0
                    THEN BigSub(a.x, a.y) ELSE BigSub(a.y, a.x)
        IN  BigCmp(BigShl(diff, MantissaBits - 3), a.y) <= 0

(* C26: the risk_reward bracket is tp = entry + tpDistance and             *)
(* sl = entry - slDistance for LONG, the signs swapped for SHORT, with     *)
(* slDistance = entry * slDistancePercent / 100 and                        *)
(* tpDistance = slDistance * riskRewardRatio, up to the rounding of the    *)
(* arithmetic; for entry 50000, ratio 2 and 0.1 percent a LONG gets        *)
(* exactly tp = 50100 and sl = 49950.                                      *)
C26_RiskRewardBracket ==
    Returned("riskReward") =>
        LET a == calc.args
            long == a.direction = "LONG"
            unit == 10 ^ (a.slDistancePercent.digits + a.riskRewardRatio.digits + 2)
            den == unit * 10 ^ a.entryPrice.digits
            tpPart == a.slDistancePercent.n * a.riskRewardRatio.n
            slPart == a.slDistancePercent.n * 10 ^ a.riskRewardRatio.digits
            example == /\ a.entryPrice = [n |-> 50000, digits |-> 0]
                       /\ a.slDistancePercent = [n |-> 1, digits |-> 1]
                       /\ a.riskRewardRatio = [n |-> 2, digits |-> 0]
        IN  /\ NearlyEqual(calc.result.tpPrice,
                  a.entryPrice.n * (IF long THEN unit + tpPart ELSE unit - tpPart),
                  den)
            /\ NearlyEqual(calc.result.slPrice,
                  a.entryPrice.n * (IF long THEN unit - slPart ELSE unit + slPart),
                  den)
            /\ (example /\ long) =>
                  /\ calc.result.tpPrice = DFromNat(50100)
                  /\ calc.result.slPrice = DFromNat(49950)
            /\ (example /\ ~long) =>
                  /\ calc.result.tpPrice = DFromNat(49900)
                  /\ calc.result.slPrice = DFromNat(50050)

C26_Witness ==
    /\ Returned("riskReward")
    /\ calc.args.direction = "LONG"
    /\ calc.args.entryPrice = [n |-> 50000, digits |-> 0]
    /\ calc.args.slDistancePercent = [n |-> 1, digits |-> 1]
    /\ calc.args.riskRewardRatio = [n |-> 2, digits |-> 0]
    /\ calc.result.tpPrice = DFromNat(50100)
    /\ calc.result.slPrice = DFromNat(49950)

(***************************************************************************)
(* Properties of the micro-grid fill handling and position reduction       *)
(***************************************************************************)
(* the standing order of one side that the strategy tracks, 0 for none *)
ActiveOrderId(g, side) ==
    IF side = "BUY" THEN g.activeBuyOrderId ELSE g.activeSellOrderId

OtherSide(side) == IF side = "BUY" THEN "SELL" ELSE "BUY"

(* a tick that polls the standing orders would find the one of this side   *)
(* FILLED (and, for the SELL order, which is polled second, has not        *)
(* handled a BUY fill before)                                              *)
FillSeen(side) ==
    /\ grid.pc = "Loop"
    /\ ActiveOrderId(grid, side) # 0
    /\ orders[ActiveOrderId(grid, side)].status = "FILLED"
    /\ side = "SELL" =>
         (grid.activeBuyOrderId = 0 \/ orders[grid.activeBuyOrderId].status = "NEW")

(* the world in which that tick calls the handler *)
FillWorld(mid) ==
    [World(mid) EXCEPT !.g = updateDynamicSpread(@, getCurrentPrice(World(mid)))]

HandleFill(w, side, f) ==
    LET order == w.orders[ActiveOrderId(w.g, side)]
    IN  IF side = "BUY"
        THEN handleBuyFill(w, order.price, order.executedQty, f)
        ELSE handleSellFill(w, order.price, order.executedQty, f)

EntryRecorded(w, r, side) ==
    LET order == w.orders[ActiveOrderId(w.g, side)]
    IN  /\ r.g.lastEntrySide = side
        /\ r.g.lastEntryPrice = order.price
        /\ r.g.lastEntryQty = order.executedQty

OppositeCancelled(w, r, side) ==
    LET opp == ActiveOrderId(w.g, OtherSide(side))
    IN  opp # 0 => r.orders[opp].status # "NEW"

(* a new BUY below the best bid and a new SELL above the best ask of the   *)
(* book as it is now, both resting and both tracked                        *)
FreshBracket(w, r) ==
    LET p == getOrderbookPrices(w)
        b == r.g.activeBuyOrderId
        s == r.g.activeSellOrderId
    IN  /\ b > Len(w.orders) /\ s > Len(w.orders)
        /\ r.orders[b].side = "BUY" /\ r.orders[b].status = "NEW"
        /\ r.orders[b].price =
             gridFormatPrice(p.bid * (RateScale - w.g.currentSpread), RateScale)
        /\ r.orders[s].side = "SELL" /\ r.orders[s].status = "NEW"
        /\ r.orders[s].price =
             gridFormatPrice(p.ask * (RateScale + w.g.currentSpread), RateScale)

PnLRealized(w, r, side) ==
    LET order == w.orders[ActiveOrderId(w.g, side)]
        dir == IF side = "BUY" THEN "SHORT" ELSE "LONG"
    IN  (w.g.lastEntrySide = OtherSide(side) /\ w.g.lastEntryPrice > 0) =>
            /\ r.g.dailyPnL = w.g.dailyPnL
                 + calculateNetPnL(w.g.lastEntryPrice, order.price,
                                   w.g.lastEntryQty, dir)
            /\ r.state.totalWins + r.state.totalLosses
                 = w.state.totalWins + w.state.totalLosses + 1
            /\ Head(r.state.trades).direction = dir
            /\ Head(r.state.trades).entryPrice = w.g.lastEntryPrice
            /\ Head(r.state.trades).exitPrice = order.price

(* C27: when a tick finds a standing order FILLED, the handler records the *)
(* fill price and quantity as the inventory entry, leaves the opposite     *)
(* standing order cancelled, places a fresh bracket from the current book  *)
(* (unless the venue refuses the placement), and, when the previous entry  *)
(* was on the opposite side, adds its net P&L to dailyPnL and records one  *)
(* completed trade.                                                        *)
C27_FillHandled ==
    \A side \in {"BUY", "SELL"}, f \in Faults \ {"query"}, mid \in GridMids :
        FillSeen(side) =>
            LET w == FillWorld(mid)
                r == HandleFill(w, side, f)
            IN  /\ EntryRecorded(w, r, side)
                /\ OppositeCancelled(w, r, side)
                /\ f # "place" => FreshBracket(w, r)
                /\ PnLRealized(w, r, side)

(* the reduce-only orders of the strategy that rest at the exchange *)
OpenReduceOnlyOrders ==
    {i \in DOMAIN orders : orders[i].role = "REDUCE" /\ orders[i].status = "NEW"}

(* C28: at most one reduce-only order of the strategy is open at the       *)
(* exchange at any time, and a step places a reduce-only order only when   *)
(* none of the earlier ones is left open, the re-pricing after the timeout *)
(* included.                                                               *)
C28_OneReduceOnlyOrder ==
    /\ Cardinality(OpenReduceOnlyOrders) <= 1
    /\ (gridCall.op = "tick" /\ "REDUCE" \in gridCall.placed) =>
         \A i \in OpenReduceOnlyOrders : i = grid.reduceOnlyOrderId

(***************************************************************************)
(* Placement of the bracket orders: OrderService.placeTakeProfitOrder and  *)
(* placeStopLossOrder, one pass of their retry loop per step, and          *)
(* TradingBot.placeTpSlOrders                                              *)
(***************************************************************************)

(* the default of the maxRetries parameter of the two methods *)
TpMaxRetries == 5
SlMaxRetries == 3

(* sleep(500) between attempts, in milliseconds *)
RetryDelay == 500

(* what the venue answers to a request: the order, a BinanceApiError with  *)
(* code -4120 or with another code, or an error that is no BinanceApiError *)
PlaceAnswers == {"ok", "-4120", "apiError", "error"}

(* the fill price of the entry order the bracket is placed around *)
PlaceEntryPrice == 100 * PriceScale

PlaceInputs ==
    {PlaceCall("placeTakeProfitOrder", d, "orderbook", n) :
        d \in Directions, n \in 1..TpMaxRetries}
      \cup {PlaceCall("placeStopLossOrder", d, "orderbook", n) :
        d \in Directions, n \in 1..SlMaxRetries}
      \cup {PlaceCall("placeTpSlOrders", d, s, Null) :
        d \in Directions, s \in {"orderbook", "risk_reward"}}

InitPlace ==
    /\ bookState = EmptyBook
    /\ bookCall = [op |-> None, u |-> 0, tick |-> 0]
    /\ strategy = "orderbook"
    /\ BotConstructed("LONG")
    /\ GridNotStarted
    /\ calc = NoCalc
    /\ placing \in PlaceInputs
    /\ socket = NoSocket

PlaceUnchanged ==
    UNCHANGED <<bookVars, wsConnected, venueVars, botVars, state, histVars,
                strategy, manager, grid, market, gridCall, calc, socket>>

(* a request of call p to the venue and the answer to it *)
PlaceRequest(p, endpoint, type, price, answer) ==
    [p EXCEPT !.requests = Append(@, [attempt |-> p.attempt, endpoint |-> endpoint,
                                      type |-> type, price |-> price,
                                      answer |-> answer])]

(* a read of the book by call p: the level asked for and the price found *)
PlaceRead(p, level, price) ==
    [p EXCEPT !.reads = Append(@, [level |-> level, price |-> price])]

PlaceReturn(p, result) == [p EXCEPT !.returned = TRUE, !.result = result]

(* the level is missing: sleep(500) and continue; after the last pass the  *)
(* loop ends and the method returns null                                   *)
SkipAttempt(p) ==
    LET next == [p EXCEPT !.sleeps = Append(@, RetryDelay), !.attempt = @ + 1]
    IN  IF p.attempt = p.maxRetries THEN PlaceReturn(next, "null") ELSE next

(* the catch block: null after the last attempt, sleep(500) and the next   *)
(* pass otherwise                                                          *)
FailAttempt(p) ==
    IF p.attempt = p.maxRetries
    THEN PlaceReturn(p, "null")
    ELSE [p EXCEPT !.sleeps = Append(@, RetryDelay), !.attempt = @ + 1]

(* placeTakeProfitOrder: one pass of the loop *)
PlaceTakeProfitOrder ==
    /\ placing.fn = "placeTakeProfitOrder" /\ ~placing.returned
    /\ placing.attempt <= placing.maxRetries
    /\ \E book \in Books, answer \in PlaceAnswers :
         LET tpPrice == getTakeProfitPrice(book, placing.direction, tpLevel)
             read == PlaceRead(placing, "tp", tpPrice)
             sent == PlaceRequest(read, "order", "LIMIT", formatPrice(tpPrice), answer)
         IN  placing' = IF tpPrice = Null THEN SkipAttempt(read)
                        ELSE IF answer = "ok" THEN PlaceReturn(sent, "order")
                        ELSE FailAttempt(sent)
    /\ PlaceUnchanged

(* the fallback of placeStopLossOrder runs on this answer of the regular   *)
(* endpoint only                                                           *)
AlgoFallback_mut(answer) == answer \in {"-4120", "apiError"}

AlgoFallback(answer) == answer = "-4120"

(* placeStopLossOrder: one pass of the loop *)
PlaceStopLossOrder ==
    /\ placing.fn = "placeStopLossOrder" /\ ~placing.returned
    /\ placing.attempt <= placing.maxRetries
    /\ \E book \in Books, answer \in PlaceAnswers, algoAnswer \in PlaceAnswers :
         LET slPrice == getStopLossPrice(book, placing.direction, slLevel)
             read == PlaceRead(placing, "sl", slPrice)
             sent == PlaceRequest(read, "order", "STOP_MARKET",
                                  formatPrice(slPrice), answer)
             algo == PlaceRequest(sent, "algoOrder", "STOP_MARKET",
                                  formatPrice(slPrice), algoAnswer)
         IN  placing' = IF slPrice = Null THEN SkipAttempt(read)
                        ELSE IF answer = "ok" THEN PlaceReturn(sent, "order")
                        ELSE IF AlgoFallback(answer)
                        THEN IF algoAnswer = "ok" THEN PlaceReturn(algo, "algoOrder")
                             ELSE FailAttempt(algo)
                        ELSE FailAttempt(sent)
    /\ PlaceUnchanged

(* placeTpSlOrders: the prices, the TP order on the regular endpoint, the  *)
(* SL order on the algo endpoint, and the cancel of the TP order when the  *)
(* SL order failed                                                         *)
PlaceTpSlOrders ==
    /\ placing.fn = "placeTpSlOrders" /\ ~placing.returned
    /\ \E book \in Books, tpAnswer \in PlaceAnswers, slAnswer \in PlaceAnswers,
          cancelAnswer \in {"ok", "error"} :
         LET p == IF placing.strategy = "risk_reward"
                  THEN RiskRewardPrices(placing.direction, PlaceEntryPrice)
                  ELSE OrderbookPrices(book, placing.direction)
             read == IF placing.strategy = "risk_reward" THEN placing
                     ELSE IF p.tp = Null
                     THEN PlaceRead(placing, "tp", p.tp)
                     ELSE PlaceRead(PlaceRead(placing, "tp", p.tp), "sl", p.sl)
             tp == PlaceRequest(read, "order", "LIMIT", formatPrice(p.tp), tpAnswer)
             sl == PlaceRequest(tp, "algoOrder", "STOP_MARKET", formatPrice(p.sl),
                                slAnswer)
             cancel == PlaceRequest(sl, "cancelOrder", "LIMIT", formatPrice(p.tp),
                                    cancelAnswer)
         IN  placing' = IF p.tp = Null \/ p.sl = Null THEN PlaceReturn(read, "null")
                        ELSE IF tpAnswer # "ok" THEN PlaceReturn(tp, "null")
                        ELSE IF slAnswer # "ok" THEN PlaceReturn(cancel, "null")
                        ELSE PlaceReturn(sl, "orders")
    /\ PlaceUnchanged

NextPlace ==
    \/ PlaceTakeProfitOrder
    \/ PlaceStopLossOrder
    \/ PlaceTpSlOrders

SpecPlace == InitPlace /\ [][NextPlace]_vars

(***************************************************************************)
(* Properties of the placement of the bracket orders                       *)
(***************************************************************************)

(* the requests of the call to the algo endpoint *)
AlgoRequests ==
    {i \in 1..Len(placing.requests) : placing.requests[i].endpoint = "algoOrder"}

(* request i follows a STOP_MARKET request to the regular endpoint, made   *)
(* in the same attempt and rejected with code -4120                        *)
AfterPrimaryRejection(i) ==
    /\ i > 1
    /\ placing.requests[i - 1].endpoint = "order"
    /\ placing.requests[i - 1].type = "STOP_MARKET"
    /\ placing.requests[i - 1].attempt = placing.requests[i].attempt
    /\ placing.requests[i - 1].answer = "-4120"

(* C29: a stop-loss request reaches the algo endpoint only after the       *)
(* STOP_MARKET request to the regular endpoint was rejected with code      *)
(* -4120 in the same attempt                                               *)
C29_AlgoOnlyAfterRejection ==
    \A i \in AlgoRequests : AfterPrimaryRejection(i)

(* the same, of OrderService.placeStopLossOrder alone *)
C29_ServiceFallbackGated ==
    placing.fn = "placeStopLossOrder" => C29_AlgoOnlyAfterRejection

(* the methods with a retry loop *)
RetryingMethods == {"placeTakeProfitOrder", "placeStopLossOrder"}

(* the book reads of the call that found no price at the level *)
NullReads == {i \in 1..Len(placing.reads) : placing.reads[i].price = Null}

(* the level of read i is read again later in the call *)
LevelReadAgain(i) ==
    \E j \in (i + 1)..Len(placing.reads) :
        placing.reads[j].level = placing.reads[i].level

(* attempt k of the call failed: no price at the level, or a request of    *)
(* the attempt was answered with an error and none with the order          *)
AttemptFailed(k) ==
    \/ placing.reads[k].price = Null
    \/ /\ \E i \in 1..Len(placing.requests) : placing.requests[i].attempt = k
       /\ \A i \in 1..Len(placing.requests) :
            placing.requests[i].attempt = k => placing.requests[i].answer # "ok"

(* a method with a retry loop makes at most maxRetries attempts, one book  *)
(* read each, waits the same time after each failed attempt, has returned  *)
(* when the attempts are used up, and returns null only after maxRetries   *)
(* failed attempts                                                         *)
BoundedRetry ==
    /\ Len(placing.reads) <= placing.maxRetries
    /\ Len(placing.sleeps) <= Len(placing.reads)
    /\ \A i \in 1..Len(placing.sleeps) : placing.sleeps[i] = RetryDelay
    /\ placing.attempt > placing.maxRetries => placing.returned
    /\ (placing.returned /\ placing.result = "null") =>
         /\ Len(placing.reads) = placing.maxRetries
         /\ \A k \in 1..placing.maxRetries : AttemptFailed(k)

(* a call that found no price at a level has read the level again, unless  *)
(* its attempts were used up                                               *)
ToleratesMissingLevel ==
    placing.returned =>
        \A i \in NullReads :
            \/ LevelReadAgain(i)
            \/ placing.fn \in RetryingMethods /\ placing.attempt > placing.maxRetries

(* C30: every call that places a bracket order reads a missing book level  *)
(* again a bounded number of times: placeTakeProfitOrder and               *)
(* placeStopLossOrder make at most maxRetries attempts with a fixed wait   *)
(* and return null only when every attempt failed                          *)
C30_BoundedRetry ==
    /\ placing.fn \in RetryingMethods => BoundedRetry
    /\ ToleratesMissingLevel

(* the same, of the two methods of OrderService alone *)
C30_ServiceBoundedRetry ==
    placing.fn \in RetryingMethods => BoundedRetry /\ ToleratesMissingLevel

(***************************************************************************)
(* Properties of the polling loops                                         *)
(***************************************************************************)
(* the step ends an iteration of the cycle loop of TradingBot *)
CycleEnds ==
    /\ pc' = "Idle" /\ pc \notin {"Constructed", "Stopped"}
    /\ pc # "Idle" \/ cycles' # cycles

(* the iteration of the cycle loop that this step ends has slept: in a     *)
(* monitoring loop, or for 5 s after the entry order could not be placed   *)
CycleSlept ==
    \/ cycle.slept
    \/ outcome' \in {"NO_ENTRY_PRICE", "ENTRY_NOT_PLACED"}

(* C31: every iteration of a polling loop passes through a sleep before    *)
(* the next one begins: an iteration of the main loop of MicroGridStrategy *)
(* ends with a sleep, an iteration of a monitoring loop of TradingBot that *)
(* does not return ends with a sleep, and an iteration of its cycle loop   *)
(* has slept when it returns to the top                                    *)
C31_LoopsSleep ==
    [][/\ gridCall'.op = "tick" => gridCall'.slept > 0
       /\ polls' > polls => cycle'.slept
       /\ CycleEnds => CycleSlept]_vars

(* the same, of the monitoring loops of TradingBot alone *)
C31_MonitorLoopsSleep == [][polls' > polls => cycle'.slept]_vars

(* the same, of the cycle loop of TradingBot alone *)
C31_CycleLoopSleeps == [][CycleEnds => CycleSlept]_vars

(* the same, of the main loop of MicroGridStrategy alone *)
C31_GridLoopSleeps == gridCall.op = "tick" => gridCall.slept > 0

(***************************************************************************)
(* Properties of the dynamic spread                                        *)
(***************************************************************************)
SpreadReturned == calc.done /\ calc.fn = "updateDynamicSpread"

(* the base spread of the configuration lies inside its band *)
BaseInsideBand ==
    /\ calc.args.minSpreadPercent <= calc.args.spreadGapPercent
    /\ calc.args.spreadGapPercent <= calc.args.maxSpreadPercent

(* C32: after updateDynamicSpread the spread lies inside the configured    *)
(* band, minSpread <= currentSpread <= maxSpread, for every price history, *)
(* those with fewer than two observations or no volatility included        *)
C32_SpreadInsideBand ==
    SpreadReturned =>
        /\ calc.args.minSpreadPercent <= calc.result
        /\ calc.result <= calc.args.maxSpreadPercent

(* the same, of the configurations whose base spread lies inside the band *)
C32_SpreadInsideBandOfBase ==
    (SpreadReturned /\ BaseInsideBand) =>
        /\ calc.args.minSpreadPercent <= calc.result
        /\ calc.result <= calc.args.maxSpreadPercent

(***************************************************************************)
(* BotStateManager: its trade history under startTrade, completeTrade and  *)
(* addForceClose called in any order, from an empty history and from one   *)
(* that is one record short of the limit                                   *)
(***************************************************************************)
MaxHistoryCalls == 3

(* the k-th trade of an earlier run, closed at k price units *)
EarlierTrade(k) ==
    [direction |-> "LONG", entryPrice |-> 100 * PriceScale, quantity |-> quantity,
     tpPrice |-> 0, slPrice |-> 0, exitPrice |-> k * PriceScale, result |-> "WIN"]

(* the history after n trades, the newest first *)
HistoryAfter(n) == [i \in 1..n |-> EarlierTrade(n - i + 1)]

ExitPrices == {200 * PriceScale, 201 * PriceScale}

InitHistory ==
    /\ bookState = EmptyBook
    /\ bookCall = [op |-> None, u |-> 0, tick |-> 0]
    /\ strategy = "orderbook"
    /\ wsConnected = FALSE
    /\ orders = <<>>
    /\ position = 0
    /\ pc = "Constructed"
    /\ isRunning = FALSE
    /\ direction = "LONG"
    /\ consecutiveLosses = 0
    /\ totalWins = 0
    /\ totalLosses = 0
    /\ cycle = EmptyCycle
    /\ polls = 0
    /\ cycles = 0
    /\ cancelsSent = {}
    /\ outcome = None
    /\ lastBracket = NoBracket
    /\ manager = BotManagerInit
    /\ GridNotStarted
    /\ calc = NoCalc
    /\ placing = NoPlacing
    /\ socket = NoSocket
    /\ \E n \in {0, HistoryLimit - 1} :
         state = [BotStateManagerInit("LONG") EXCEPT !.trades = HistoryAfter(n),
                                                     !.totalWins = n]

HistoryUnchanged ==
    UNCHANGED <<bookVars, wsConnected, venueVars, pc, isRunning, direction,
                consecutiveLosses, totalWins, totalLosses, cycle, polls, histVars,
                restVars>>

(* startTrade; cycles counts the trades begun, force closes included *)
StartTrade ==
    /\ cycles < MaxHistoryCalls
    /\ cycles' = cycles + 1
    /\ \E dir \in {"LONG", "SHORT"} :
         state' = startTrade(state,
                     [direction |-> dir, entryPrice |-> 100 * PriceScale,
                      quantity |-> quantity, tpPrice |-> 101 * PriceScale,
                      slPrice |-> 99 * PriceScale, exitPrice |-> Null,
                      result |-> None])
    /\ HistoryUnchanged

(* completeTrade, also when no trade is open *)
CompleteTrade ==
    /\ \E exitPrice \in ExitPrices, result \in {"WIN", "LOSS", "TIMEOUT"} :
         state' = completeTrade(state, exitPrice, result)
    /\ UNCHANGED cycles
    /\ HistoryUnchanged

AddForceClose ==
    /\ cycles < MaxHistoryCalls
    /\ cycles' = cycles + 1
    /\ \E dir \in {"LONG", "SHORT"}, exitPrice \in ExitPrices, netPnL \in {-1, 0, 1} :
         state' = addForceClose(state, dir, 100 * PriceScale, exitPrice, quantity,
                                netPnL)
    /\ HistoryUnchanged

NextHistory ==
    \/ StartTrade
    \/ CompleteTrade
    \/ AddForceClose

SpecHistory == InitHistory /\ [][NextHistory]_vars

(***************************************************************************)
(* Properties of the trade history                                         *)
(***************************************************************************)
(* the first n records of history h *)
Newest(h, n) == SubSeq(h, 1, Min(Len(h), n))

(* the step added a record to the history: the record is the first one,    *)
(* it is closed, and the records after it are the newest of the history    *)
(* before, in their order                                                  *)
RecordAdded ==
    /\ state'.trades # <<>>
    /\ Head(state'.trades).exitPrice \in ExitPrices
    /\ Head(state'.trades).result # None
    /\ Tail(state'.trades) = Newest(state.trades, HistoryLimit - 1)

(* C33: after any sequence of completeTrade and addForceClose calls the    *)
(* history holds at most 100 records, and they are the most recently       *)
(* completed trades, the newest first                                      *)
C33_HistoryBounded ==
    [][/\ Len(state'.trades) <= HistoryLimit
       /\ state'.trades # state.trades => RecordAdded
       /\ AddForceClose => RecordAdded
       /\ (CompleteTrade /\ state.currentTrade # NoTrade) => RecordAdded]_vars

(* the history is full and its oldest record is the second trade of the    *)
(* earlier run: the first one was dropped for a newer record               *)
C33_Witness ==
    /\ Len(state.trades) = HistoryLimit
    /\ state.trades[HistoryLimit] = EarlierTrade(2)
    /\ state.trades[1].exitPrice \in ExitPrices

(***************************************************************************)
(* Properties of BotManager                                                *)
(***************************************************************************)
(* startBot has returned success for the instance in currentBot, and       *)
(* stopBot was not called since                                            *)
StartedInstance ==
    /\ InRunLoop /\ ~manager.isStarting
    /\ isRunning /\ state.isRunning

(* C34: an instance that startBot has started keeps running until stopBot  *)
(* is called: the running flag of the shared state stays true in every     *)
(* step that is not stopBot, the exit of an earlier instance from run()    *)
(* included                                                                *)
C34_NewInstanceKeepsRunning ==
    [][StartedInstance => (state'.isRunning \/ StopBot)]_vars

(***************************************************************************)
(* Properties of the polling of the standing orders                        *)
(***************************************************************************)
(* C35: each filled order is handled once: after the pass of the loop that *)
(* handled the fill of a standing order the strategy holds the order's id  *)
(* neither in activeBuyOrderId nor in activeSellOrderId, also when the     *)
(* position limit blocks the new bracket or its placement fails, so that   *)
(* the next pass does not count and handle the same fill again             *)
C35_FilledOrderForgotten ==
    [][gridCall'.op = "tick" =>
         \A side \in gridCall'.handled :
            /\ ActiveOrderId(grid, side) # grid'.activeBuyOrderId
            /\ ActiveOrderId(grid, side) # grid'.activeSellOrderId]_vars

(* C35, the count: two passes of the loop that follow one another with no  *)
(* fill between them never handle (and count in tradesCompleted) a fill of *)
(* the same side, which would be the fill of the same order                *)
C35_NoFillCountedTwice ==
    [][(gridCall.op = "tick" /\ gridCall'.op = "tick")
          => gridCall'.handled \cap gridCall.handled = {}]_vars

(* both standing orders of the bracket are FILLED at the exchange *)
BothBracketOrdersFilled ==
    /\ grid.pc = "Loop"
    /\ \A side \in {"BUY", "SELL"} :
          /\ ActiveOrderId(grid, side) # 0
          /\ orders[ActiveOrderId(grid, side)].status = "FILLED"

(* C36: no fill of a standing order is lost: when the BUY and the SELL     *)
(* order of the bracket have both filled between two polls, the pass of    *)
(* the loop that polls them handles both fills                             *)
C36_BothFillsHandled ==
    [][(BothBracketOrdersFilled /\ gridCall'.op = "tick"
            /\ gridCall'.handled # {})
          => gridCall'.handled = {"BUY", "SELL"}]_vars

(***************************************************************************)
(* Properties of the entry timeout                                         *)
(***************************************************************************)
(* the entry order of the cycle is PARTIALLY_FILLED and the timeout of     *)
(* monitorEntryOrder expires                                               *)
TimeoutOfPartialEntry ==
    /\ MonitorEntryTimeout
    /\ orders[cycle.entryOrderId].status = "PARTIALLY_FILLED"

(* C37: when the entry order is PARTIALLY_FILLED at the entry timeout, the *)
(* bot does not return to Idle with the executed quantity open as a        *)
(* position and neither a TP nor an SL order outstanding for it            *)
C37_PartialFillProtected ==
    [][TimeoutOfPartialEntry =>
         \/ pc' # "Idle"
         \/ position' = 0
         \/ \E i \in DOMAIN orders' :
               orders'[i].role \in {"tp", "sl"} /\ orders'[i].status = "NEW"]_vars

(***************************************************************************)
(* Properties of the stabilization wait                                    *)
(***************************************************************************)
(* a pass of the loop that begins and ends inside the stabilization wait   *)
(* (checkStabilizationComplete clears the flag once the wait has elapsed)  *)
PassInsideStabilizationWait ==
    /\ gridCall'.op = "tick"
    /\ grid.isWaitingForStabilization
    /\ grid'.isWaitingForStabilization

(* C38: during the stabilization wait that follows an emergency market     *)
(* close the strategy places no order of any kind, also when the price     *)
(* leaves the containment band and enters it again during the wait         *)
C38_NoOrdersWhileStabilizing ==
    [][PassInsideStabilizationWait => Len(orders') = Len(orders)]_vars

(* C38, the passes that find the price inside the band only *)
C38_NoBracketWhileStabilizing ==
    [][(PassInsideStabilizationWait /\ gridCall'.observed = "in")
          => Len(orders') = Len(orders)]_vars

(***************************************************************************)
(* Properties of the two copies of the trading state                       *)
(***************************************************************************)
(* a running TradingBot stands between two cycles *)
IdleBoundary == pc = "Idle" /\ LoopCondition

(* C39: at every Idle boundary of a running TradingBot its own direction   *)
(* and consecutiveLosses equal the ones held by the BotStateManager, and   *)
(* the manager has no current trade                                        *)
C39_StateInSync ==
    IdleBoundary =>
        /\ direction = state.direction
        /\ consecutiveLosses = state.consecutiveLosses
        /\ state.currentTrade = NoTrade

(* C39, the counters only *)
C39_CountersInSync ==
    IdleBoundary =>
        /\ direction = state.direction
        /\ consecutiveLosses = state.consecutiveLosses

(***************************************************************************)
(* BaseWebSocket                                                           *)
(***************************************************************************)
maxReconnectAttempts == 10
MaxSockets == 12

(* options.reconnect: the default, which both subclasses leave in place *)
reconnectOption == TRUE

InitSocket ==
    /\ bookState = EmptyBook
    /\ bookCall = [op |-> None, u |-> 0, tick |-> 0]
    /\ strategy = "orderbook"
    /\ wsConnected = FALSE
    /\ orders = <<>>
    /\ position = 0
    /\ pc = "Constructed"
    /\ isRunning = FALSE
    /\ direction = "LONG"
    /\ consecutiveLosses = 0
    /\ totalWins = 0
    /\ totalLosses = 0
    /\ cycle = EmptyCycle
    /\ polls = 0
    /\ cycles = 0
    /\ cancelsSent = {}
    /\ outcome = None
    /\ lastBracket = NoBracket
    /\ manager = BotManagerInit
    /\ GridNotStarted
    /\ calc = NoCalc
    /\ placing = NoPlacing
    /\ state = BotStateManagerInit("LONG")
    /\ socket = NoSocket

SocketUnchanged ==
    UNCHANGED <<bookVars, wsConnected, venueVars, botVars, state, histVars,
                strategy, manager, grid, market, gridCall, calc, placing>>

(* connect(): a new WebSocket object, assigned to this.ws *)
connect(s) ==
    [s EXCEPT !.sockets = Append(@, "CONNECTING"), !.ws = Len(s.sockets) + 1]

(* attemptReconnect up to its delay *)
attemptReconnect(s) ==
    IF s.reconnectAttempts >= maxReconnectAttempts THEN s
    ELSE [s EXCEPT !.reconnectAttempts = @ + 1, !.waiting = @ + 1]

(* the owner of the client calls connect() *)
SocketConnect ==
    /\ socket.sockets = <<>>
    /\ ~socket.closed
    /\ socket' = connect(socket)
    /\ SocketUnchanged

(* onopen of WebSocket object i *)
SocketOnOpen ==
    /\ \E i \in DOMAIN socket.sockets :
         /\ socket.sockets[i] = "CONNECTING"
         /\ socket' = [socket EXCEPT !.sockets[i] = "OPEN",
                                     !.isConnected = TRUE,
                                     !.reconnectAttempts = 0]
    /\ SocketUnchanged

(* WebSocket object i closes (the connection fails, drops, or the closing  *)
(* handshake of close() ends): its onclose handler                         *)
SocketOnClose ==
    /\ \E i \in DOMAIN socket.sockets :
         /\ socket.sockets[i] # "CLOSED"
         /\ LET s == [socket EXCEPT !.sockets[i] = "CLOSED",
                                    !.isConnected = FALSE]
            IN  socket' = IF s.shouldReconnect /\ reconnectOption
                          THEN attemptReconnect(s) ELSE s
    /\ SocketUnchanged

(* attemptReconnect after its delay: connect() *)
ReconnectAfterDelay ==
    /\ socket.waiting > 0
    /\ Len(socket.sockets) < MaxSockets
    /\ socket' = connect([socket EXCEPT !.waiting = @ - 1])
    /\ SocketUnchanged

(* close() *)
SocketClose ==
    /\ socket' = [socket EXCEPT
                    !.shouldReconnect = FALSE,
                    !.sockets = IF socket.ws # 0 /\ @[socket.ws] \in {"CONNECTING", "OPEN"}
                                THEN [@ EXCEPT ![socket.ws] = "CLOSING"]
                                ELSE @,
                    !.ws = 0,
                    !.isConnected = FALSE,
                    !.closed = TRUE]
    /\ socket' # socket
    /\ SocketUnchanged

NextSocket ==
    \/ SocketConnect
    \/ SocketOnOpen
    \/ SocketOnClose
    \/ ReconnectAfterDelay
    \/ SocketClose

SpecSocket == InitSocket /\ [][NextSocket]_vars

(* C40: after close() the client opens no new connection: a reconnect      *)
(* attempt that waits in its backoff delay when close() is called does not *)
(* call connect()                                                          *)
C40_NoConnectionAfterClose ==
    [][socket.closed => Len(socket'.sockets) = Len(socket.sockets)]_vars

(* C40, the count: the consecutive reconnect attempts never exceed         *)
(* maxReconnectAttempts                                                    *)
C40_AttemptsBounded ==
    socket.reconnectAttempts <= maxReconnectAttempts
====
